---------------------------- MODULE Spec2Model ----------------------------
(***************************************************************************)
(* Model of the email classification-and-folder-reconciliation engine:     *)
(* SortEmailService (sort_email.service.ts) driven by SortEmailController  *)
(* (sort_email.controller.ts), against an IMAP mail store and an external  *)
(* text classifier.                                                        *)
(*                                                                         *)
(* Strings are tuples of one-character strings, so that toLowerCase, trim  *)
(* and startsWith are computed character by character as the code does.    *)
(***************************************************************************)
EXTENDS Naturals, Sequences, FiniteSets

VARIABLES
    imapState,      \* this.imap.state: "disconnected" | "connected" |
                    \* "authenticated"
    ending,         \* end() was accepted, the transport has not closed yet
    connPromise,    \* promise of the last connectToImap call
    listeners,      \* once-listeners of that call that are still armed
    connEvents,     \* events the transport signalled since that call
    connRet,        \* where the caller of connectToImap resumes
    boxes,          \* server: folder names, in listing order
    content,        \* server: messages held by each folder
    seen,           \* server: INBOX messages flagged \Seen
    deleted,        \* server: INBOX messages flagged \Deleted
    selected,       \* server: the folder opened on the session (<<>>: none)
    categories,     \* this.categories
    pc,             \* position of the request in progress
    op,             \* the request in progress
    runs,           \* requests started so far
    emails,         \* messages returned by the fetch of the run
    idx,            \* classify loop: next message to classify
    sortedEmails,   \* the classification batch, keys in insertion order
    catIdx,         \* processSortedEmails: position in Object.keys(sortedEmails)
    emailUids,      \* processSortedEmails: UIDs of the category being moved
    totalProcessed, \* processSortedEmails: totalProcessed
    log,            \* commands issued by the current processSortedEmails
    warned,         \* categories for which "Aucun UID valide" was logged
    closeThrew,     \* an exception escaped closeConnection
    lastClose,      \* session before and after the last two closeConnection calls
    faults,         \* a command or the transport failed, or a UID was not
                    \* delivered, during the module start or request in progress
    result,         \* what the controller returned for the last request
    lastAnswer,     \* classifier answer given to the last categorizeEmail
    lastCategory,   \* what that categorizeEmail returned
    folderIdx,      \* fetch of all folders: position in Object.keys(boxes)
    limit,          \* the limit argument of the fetch of the run (0: none)
    fetch,          \* one imap.fetch: its events, the email objects and
                    \* the promises of its 'message' handler
    batchRun,       \* one processEmailsInBatches call: its loop, the
                    \* analysis calls in flight and its results
    unparsable,     \* server: messages whose body simpleParser rejects
    clock,          \* the current time, in minutes
    dates,          \* server: the date of each message, in minutes
    todayEmails,    \* getTodayEmails: the messages its date filter kept
    cpc,            \* concurrent requests: the position of each
    order,          \* concurrent requests: the requests in arrival order
    issuedIn        \* concurrent requests: the session status in which each
                    \* issued its last command

vars == <<imapState, ending, connPromise, listeners, connEvents,
          connRet, boxes, content, seen, deleted, selected, categories, pc,
          op, runs, emails, idx, sortedEmails, catIdx, emailUids,
          totalProcessed, log, warned, closeThrew, lastClose, faults, result,
          lastAnswer, lastCategory, folderIdx, limit, fetch, batchRun,
          unparsable, clock, dates, todayEmails, cpc, order, issuedIn>>

---------------------------------------------------------------------------
\* Bounds of the model.

\* Messages in INBOX when the module starts.
MaxMsgs == 2
\* Requests the controller receives.
MaxRuns == 2
\* Longest server folder listing drawn for the category taxonomy.
MaxListing == 4

---------------------------------------------------------------------------
\* Folder names and strings.

INBOX == <<"I", "N", "B", "O", "X">>
Autre == <<"A", "u", "t", "r", "e">>
Factures == <<"F", "a", "c", "t", "u", "r", "e", "s">>
Gmail == <<"[", "G", "m", "a", "i", "l", "]">>
Recus == <<"R", "e", "ç", "u", "s">>
RecusEncoded == <<"R", "e", "&", "A", "O", "c", "-", "u", "s">>
Envoyes == <<"E", "n", "v", "o", "y", "é", "s">>
EnvoyesEncoded == <<"E", "n", "v", "o", "y", "&", "A", "O", "k", "-", "s">>
autre == <<"a", "u", "t", "r", "e">>
FACTURES == <<"F", "A", "C", "T", "U", "R", "E", "S">>
Spam == <<"S", "p", "a", "m">>
OUI == <<"O", "U", "I">>
NON == <<"N", "O", "N">>

UpperChars == <<"A", "B", "C", "D", "E", "F", "G", "H", "I", "J", "K", "L", "M",
                "N", "O", "P", "Q", "R", "S", "T", "U", "V", "W", "X", "Y", "Z",
                "Ç", "É">>
LowerChars == <<"a", "b", "c", "d", "e", "f", "g", "h", "i", "j", "k", "l", "m",
                "n", "o", "p", "q", "r", "s", "t", "u", "v", "w", "x", "y", "z",
                "ç", "é">>

toLowerChar(c) ==
    IF \E i \in 1..Len(UpperChars) : UpperChars[i] = c
    THEN LowerChars[CHOOSE i \in 1..Len(UpperChars) : UpperChars[i] = c]
    ELSE c

toLowerCase(s) == [i \in 1..Len(s) |-> toLowerChar(s[i])]

toUpperChar(c) ==
    IF \E i \in 1..Len(LowerChars) : LowerChars[i] = c
    THEN UpperChars[CHOOSE i \in 1..Len(LowerChars) : LowerChars[i] = c]
    ELSE c

toUpperCase(s) == [i \in 1..Len(s) |-> toUpperChar(s[i])]

startsWith(s, c) == Len(s) > 0 /\ s[1] = c

Whitespace == {" ", "\t", "\n"}

RECURSIVE trimStart(_)
trimStart(s) ==
    IF s # <<>> /\ Head(s) \in Whitespace THEN trimStart(Tail(s)) ELSE s

RECURSIVE trimEnd(_)
trimEnd(s) ==
    IF s # <<>> /\ s[Len(s)] \in Whitespace
    THEN trimEnd(SubSeq(s, 1, Len(s) - 1))
    ELSE s

trim(s) == trimEnd(trimStart(s))

Range(s) == {s[i] : i \in 1..Len(s)}

includes(s, x) == \E i \in 1..Len(s) : s[i] = x

---------------------------------------------------------------------------
\* Pure functions of SortEmailService.

\* normalizeMailboxName: the two hard-coded encodings, any other name as is.
normalizeMailboxName(folderName) ==
    IF folderName = Recus THEN RecusEncoded
    ELSE IF folderName = Envoyes THEN EnvoyesEncoded
    ELSE folderName

\* The filter without its second condition: only INBOX is excluded.
filterInboxOnly(folderNames) ==
    SelectSeq(folderNames, LAMBDA name : name # INBOX)

\* folderNames.filter(name => name !== 'INBOX' && !name.startsWith('['))
RECURSIVE filterSpecialFolders(_)
filterSpecialFolders(folderNames) ==
    IF folderNames = <<>> THEN <<>>
    ELSE IF Head(folderNames) # INBOX /\ ~startsWith(Head(folderNames), "[")
         THEN <<Head(folderNames)>> \o filterSpecialFolders(Tail(folderNames))
         ELSE filterSpecialFolders(Tail(folderNames))

\* The getBoxes callback of initializeCategories: err is the listing error.
initializeCategories(err, folderNames) ==
    IF err THEN <<Autre>>
    ELSE LET filtered == filterSpecialFolders(folderNames)
         IN  IF includes(filtered, Autre) THEN filtered
             ELSE Append(filtered, Autre)

\* A classifier answer: the call throws, or answers without content, or
\* answers with a text.
Throws == [kind |-> "throw", content |-> <<>>]
NoContent == [kind |-> "null", content |-> <<>>]
Text(s) == [kind |-> "text", content |-> s]

\* this.categories.find(c => c.toLowerCase() === predicted.toLowerCase())
find(cats, predicted) ==
    IF \E i \in 1..Len(cats) : toLowerCase(cats[i]) = toLowerCase(predicted)
    THEN cats[CHOOSE i \in 1..Len(cats) :
                /\ toLowerCase(cats[i]) = toLowerCase(predicted)
                /\ \A j \in 1..(i - 1) :
                       toLowerCase(cats[j]) # toLowerCase(predicted)]
    ELSE <<>>

\* categorizeEmail: the category returned for a classifier answer.
categorizeEmail(answer, cats) ==
    IF answer.kind = "throw" THEN Autre
    ELSE LET predictedCategory ==
                 IF answer.kind = "text" /\ trim(answer.content) # <<>>
                 THEN trim(answer.content)
                 ELSE Autre
             found == find(cats, predictedCategory)
         IN  IF found # <<>> THEN found ELSE Autre

\* closeConnection without its try / catch: what end() raises escapes.
closeConnectionNoCatch(s) ==
    IF s.state # "disconnected"
    THEN IF s.raises THEN [s EXCEPT !.threw = TRUE]
         ELSE [s EXCEPT !.ending = TRUE]
    ELSE s

\* closeConnection on a session s = [state, ending, raises, threw], where
\* raises tells whether end() raises in the condition the transport is in:
\* end() is called unless the state is 'disconnected', and what it raises is
\* caught and logged.
closeConnection(s) ==
    IF s.state # "disconnected" /\ ~s.raises
    THEN [s EXCEPT !.ending = TRUE]
    ELSE s

Session(raises) == [state |-> imapState, ending |-> ending,
                    raises |-> raises, threw |-> closeThrew]

---------------------------------------------------------------------------
\* State.

sessionVars == <<imapState, ending, connPromise, listeners,
                 connEvents, connRet>>
serverVars == <<boxes, content, seen, deleted, selected>>
runVars == <<emails, idx, sortedEmails, catIdx, emailUids, totalProcessed,
             log, warned>>
pureVars == <<lastAnswer, lastCategory>>
\* State of the requests and of the server that only the specifications
\* further down make use of.
todayVars == <<clock, dates, todayEmails>>
concVars == <<cpc, order, issuedIn>>
otherVars == <<todayVars, concVars, limit, fetch, batchRun>>
extVars == <<folderIdx, unparsable, otherVars>>

\* Every folder name the server may come to hold.
FolderNames == {INBOX, Gmail, Factures, Autre, autre, Recus, RecusEncoded,
                Spam}

\* Folder listings of the server when the module starts.
InitListings == {<<INBOX, Gmail, Factures, Spam>>, <<Factures, Autre, INBOX>>,
                 <<INBOX, Recus>>}

\* Answers of the classifier during a sort run.
RunAnswers == {Throws, Text(Factures), Text(Recus), Text(Spam)}

\* Category names POST sort-by-category is called with.
ByCategoryNames == {Factures, Spam}

\* Answers of the classifier to the OUI/NON question of sortEmailsByCategory.
ByCategoryAnswers == {Throws, NoContent, Text(<<"O", "u", "i", " ">>),
                      Text(NON)}

NoResult == [kind |-> "none"]
NoAnswer == [kind |-> "none", content |-> <<>>]

\* Ascending sequence of a set of UIDs (the order of a search result).
RECURSIVE SortedSeq(_)
SortedSeq(S) ==
    IF S = {} THEN <<>>
    ELSE LET m == CHOOSE x \in S : \A y \in S : x <= y
         IN  <<m>> \o SortedSeq(S \ {m})

\* No imap.fetch has been called.
NoFetch ==
    [variant |-> "none", ids |-> <<>>, cur |-> 0, body |-> FALSE,
     attrs |-> FALSE, objs |-> <<>>, promises |-> <<>>, early |-> {},
     ended |-> FALSE, outcome |-> "none", returned |-> <<>>]

\* processEmailsInBatches has not been called.
NoBatchRun ==
    [pos |-> "none", n |-> 0, i |-> 0, inFlight |-> {}, failed |-> {},
     analyzedEmails |-> <<>>, trail |-> <<>>]

InitRun ==
    /\ emails = <<>>
    /\ idx = 1
    /\ sortedEmails = <<>>
    /\ catIdx = 1
    /\ emailUids = <<>>
    /\ totalProcessed = 0
    /\ log = <<>>
    /\ warned = {}

\* One request at a time: no concurrent request is tracked.
OneAtATime ==
    /\ cpc = <<>>
    /\ order = <<>>
    /\ issuedIn = <<>>

\* The state after construction (constructor, lines 57-82): no category, the
\* session not connected.
InitService ==
    /\ imapState = "disconnected"
    /\ ending = FALSE
    /\ connPromise = "none"
    /\ listeners = {}
    /\ connEvents = <<>>
    /\ connRet = "none"
    /\ seen = {}
    /\ deleted = {}
    /\ selected = <<>>
    /\ categories = <<>>
    /\ op = "none"
    /\ InitRun
    /\ closeThrew = FALSE
    /\ lastClose = <<>>
    /\ faults = FALSE
    /\ result = NoResult
    /\ limit = 0
    /\ fetch = NoFetch
    /\ batchRun = NoBatchRun
    /\ lastAnswer = NoAnswer
    /\ lastCategory = <<>>
    /\ folderIdx = 1
    /\ todayEmails = <<>>

Init ==
    /\ InitService
    /\ OneAtATime
    /\ clock = 0
    /\ dates = <<>>
    /\ unparsable = {}
    /\ pc = "boot"
    /\ runs = 0
    /\ boxes \in InitListings
    /\ \E n \in {0, MaxMsgs} :
           content = [f \in FolderNames |-> IF f = INBOX THEN 1..n ELSE {}]

---------------------------------------------------------------------------
\* The session.

\* closeConnection called n times in a row (n is 1 or 2) on a session in
\* state st.  Nothing happens to the transport between two calls that follow
\* one another, so end() raises in both or in neither.
Close(n, st) ==
    \E raises \in BOOLEAN :
        LET s == [Session(raises) EXCEPT !.state = st]
            s1 == closeConnection(s)
            s2 == closeConnection(s1)
            fin == IF n = 1 THEN s1 ELSE s2
        IN  /\ ending' = fin.ending
            /\ closeThrew' = fin.threw
            /\ lastClose' = IF n = 1 THEN <<s, s1>> ELSE <<s, s1, s2>>

\* connectToImap: arms the once-listeners and calls connect(); the caller
\* resumes at ret when the promise resolves.
connectToImap(ret) ==
    /\ connPromise' = "pending"
    /\ listeners' = {"ready", "error"}
    /\ connEvents' = <<>>
    /\ connRet' = ret
    /\ imapState' = "disconnected"
    /\ ending' = FALSE
    /\ pc' = "connecting"

\* A promise that the last call of resolve or reject settles anew.
settleLast(promise, outcome) == outcome

\* A settled promise keeps its outcome: resolve and reject act on a pending
\* promise only.
settle(promise, outcome) == IF promise = "pending" THEN outcome ELSE promise

\* The answer of the controller to a request that threw: error is the cause
\* its message tells ("imap": a command or the transport, "parse": the
\* parsing of a body, "classifier": the classifier call, "TypeError": a push
\* to a missing list).
ErrorResult(error) ==
    [kind |-> "error", success |-> FALSE, stats |-> <<>>,
     emailsProcessed |-> 0, error |-> error]

\* A catch that rethrows without calling closeConnection.
SortFailNoClose(st, error) ==
    /\ result' = ErrorResult(error)
    /\ pc' = "done"
    /\ UNCHANGED <<ending, closeThrew, lastClose>>

\* The caught error of sortEmails / sortEmailsByCategory, the session being
\* in state st:
\* closeConnection, rethrow; the controller answers success: false.
SortFail(st, error) ==
    /\ Close(1, st)
    /\ result' = ErrorResult(error)
    /\ pc' = "done"

\* Where the caller of a resolved connectToImap goes on: both calls of
\* processSortedEmails are followed by its loop over the categories.
resumeAt(ret) == IF ret = "proc_loop_forced" THEN "proc_loop" ELSE ret

\* The transport signals 'ready': the promise resolves if it is pending and
\* the caller resumes.
TransportReady ==
    /\ pc # "done"
    /\ "ready" \in listeners
    /\ listeners' = listeners \ {"ready"}
    /\ connEvents' = IF connPromise = "none" THEN connEvents
                      ELSE Append(connEvents, "ready")
    /\ connPromise' = settle(connPromise, "resolved")
    /\ imapState' = "authenticated"
    /\ pc' = IF connPromise = "pending" THEN resumeAt(connRet) ELSE pc
    /\ UNCHANGED <<ending, connRet, serverVars, categories, op, runs, runVars,
                   closeThrew, lastClose, faults, result, pureVars, extVars>>

\* The transport signals 'error' after the promise settled: the listener
\* calls reject on a settled promise.
TransportErrorLate ==
    /\ pc # "done"
    /\ "error" \in listeners
    /\ connPromise # "pending"
    /\ listeners' = listeners \ {"error"}
    /\ connEvents' = IF connPromise = "none" THEN connEvents
                      ELSE Append(connEvents, "error")
    /\ connPromise' = settle(connPromise, "rejected")
    /\ imapState' = "disconnected"
    /\ faults' = TRUE
    /\ UNCHANGED <<ending, connRet, serverVars, categories, pc, op,
                   runs, runVars, closeThrew, lastClose, result, pureVars, extVars>>

\* The transport signals 'error' while onModuleInit awaits connectToImap: the
\* catch of onModuleInit logs it; initializeCategories is not reached and the
\* module start is over.
ConnectRejectedInit ==
    /\ "error" \in listeners
    /\ connPromise = "pending"
    /\ connRet = "init_cats"
    /\ listeners' = listeners \ {"error"}
    /\ connEvents' = Append(connEvents, "error")
    /\ connPromise' = settle(connPromise, "rejected")
    /\ imapState' = "disconnected"
    /\ faults' = FALSE
    /\ pc' = "idle"
    /\ UNCHANGED <<ending, connRet, serverVars, categories, op,
                   runs, runVars, closeThrew, lastClose, result, pureVars, extVars>>

\* ... while getUnsortedEmails awaits connectToImap: the error propagates to
\* the catch of the sort operation.
ConnectRejectedFetch ==
    /\ "error" \in listeners
    /\ connPromise = "pending"
    /\ connRet = "open_inbox"
    /\ listeners' = listeners \ {"error"}
    /\ connEvents' = Append(connEvents, "error")
    /\ connPromise' = settle(connPromise, "rejected")
    /\ imapState' = "disconnected"
    /\ faults' = TRUE
    /\ SortFail("disconnected", "imap")
    /\ UNCHANGED <<connRet, serverVars, categories, op, runs,
                   runVars, pureVars, extVars>>

\* ... while processSortedEmails awaits its first connectToImap: the inner
\* catch calls connectToImap again.
ConnectRejectedProc ==
    /\ "error" \in listeners
    /\ connPromise = "pending"
    /\ connRet = "proc_loop"
    /\ faults' = TRUE
    /\ connectToImap("proc_loop_forced")
    /\ UNCHANGED <<serverVars, categories, op, runs,
                   runVars, closeThrew, lastClose, result, pureVars, extVars>>

\* The transport closes after an accepted end().
TransportClose ==
    /\ pc # "done"
    /\ ending
    /\ ending' = FALSE
    /\ imapState' = "disconnected"
    /\ UNCHANGED <<connPromise, listeners, connEvents, connRet,
                   serverVars, categories, pc, op, runs, runVars, closeThrew,
                   lastClose, faults, result, pureVars, extVars>>

---------------------------------------------------------------------------
\* Module start and the fetch / classify stage of POST sort-email/sort.

\* Outcomes a server command can have: it fails when the session is not
\* authenticated, and may fail or succeed when it is.
Outcomes == IF imapState = "authenticated" THEN BOOLEAN ELSE {FALSE}

\* onModuleInit up to its first await.
OnModuleInit ==
    /\ pc = "boot"
    /\ connectToImap("init_cats")
    /\ UNCHANGED <<serverVars, categories, op, runs, runVars,
                   closeThrew, lastClose, faults, result, pureVars, extVars>>

\* onModuleInit: await this.initializeCategories().
InitializeCategories ==
    /\ pc = "init_cats"
    /\ \E ok \in Outcomes :
           /\ categories' = initializeCategories(~ok, boxes)
           /\ faults' = (faults \/ ~ok)
    /\ pc' = "list_boxes"
    /\ UNCHANGED <<sessionVars, serverVars, op, runs, runVars, closeThrew,
                   lastClose, result, pureVars, extVars>>

\* onModuleInit: await this.listMailboxes(); its rejection is caught, and the
\* module start is over either way.
ListMailboxes ==
    /\ pc = "list_boxes"
    /\ faults' = FALSE
    /\ pc' = "idle"
    /\ UNCHANGED <<sessionVars, serverVars, categories, op, runs, runVars,
                   closeThrew, lastClose, result, pureVars, extVars>>

ResetRun ==
    /\ emails' = <<>>
    /\ idx' = 1
    /\ sortedEmails' = <<>>
    /\ catIdx' = 1
    /\ emailUids' = <<>>
    /\ totalProcessed' = 0
    /\ log' = <<>>
    /\ warned' = {}

\* POST sort: SortEmailController.sortEmails -> sortEmails ->
\* getUnsortedEmails -> connectToImap.
StartSort ==
    /\ pc = "idle"
    /\ runs < MaxRuns
    /\ op' = "sort"
    /\ runs' = runs + 1
    /\ UNCHANGED <<result, runVars>>
    /\ connectToImap("open_inbox")
    /\ UNCHANGED <<serverVars, categories, closeThrew, lastClose,
                   faults, pureVars, extVars>>

\* getUnsortedEmails: openBox('INBOX', false).
OpenInbox ==
    /\ pc = "open_inbox"
    /\ \E ok \in Outcomes :
           IF ok
           THEN /\ selected' = INBOX
                /\ pc' = "search"
                /\ UNCHANGED <<ending, closeThrew, lastClose, result, faults>>
           ELSE /\ SortFail(imapState, "imap")
                /\ faults' = TRUE
                /\ UNCHANGED selected
    /\ UNCHANGED <<imapState, connPromise, listeners, connEvents,
                   connRet, boxes, content, seen, deleted, categories, op,
                   runs, runVars, pureVars, extVars>>

\* sortedEmails = {}; this.categories.forEach(c => sortedEmails[c] = []).
emptyBatch(cats) ==
    [i \in 1..Len(cats) |-> [category |-> cats[i], emails |-> <<>>]]

\* Requests that group every fetched message by category: sortEmails (POST
\* sort, POST analyze-invoices), sortAllEmails (POST sort-all) and the sorts
\* of all folders (POST analyze-all-folders/unread and /all).
GroupingOps == {"sort", "sortAll", "invoices", "folders", "foldersAll"}

\* Requests whose fetch searches ['ALL'] rather than ['UNSEEN'].
AllCriteriaOps == {"sortAll", "foldersAll"}

\* The UIDs a search of the selected folder returns, in ascending order.
SearchResults ==
    SortedSeq(IF op \in AllCriteriaOps THEN content[selected]
              ELSE content[selected] \ seen)

\* results.slice(0, n).
slice(results, n) ==
    SubSeq(results, 1, IF n < Len(results) THEN n ELSE Len(results))

\* finalResults = limit ? results.slice(0, limit) : results: the identifiers
\* whose bodies the fetch of one folder asks for.
limitResults(results, l) ==
    IF l # 0 THEN slice(results, l) ELSE results

\* The search and the fetch of the found messages.  An error of the search,
\* of the fetch or of the parsing of one body rejects the whole fetch.
\* A message comes with the uid of its attributes or without one.
SearchAndFetch ==
    /\ pc = "search"
    /\ \E ok \in Outcomes :
           IF ok /\ Range(limitResults(SearchResults, limit))
                         \cap unparsable = {}
           THEN LET results == limitResults(SearchResults, limit)
                IN  /\ \E noUid \in SUBSET Range(results) :
                           /\ emails' =
                                  [i \in 1..Len(results) |->
                                      [msg |-> results[i],
                                       uid |-> IF results[i] \in noUid
                                               THEN 0 ELSE results[i],
                                       category |-> <<>>]]
                           /\ faults' = (faults \/ noUid # {})
                    /\ sortedEmails' = IF op \in GroupingOps
                                       THEN emptyBatch(categories)
                                       ELSE sortedEmails
                    /\ idx' = 1
                    /\ pc' = "classify"
                    /\ UNCHANGED <<ending, closeThrew, lastClose, result>>
           ELSE /\ SortFail(imapState, IF ok THEN "parse" ELSE "imap")
                /\ faults' = TRUE
                /\ UNCHANGED <<emails, sortedEmails, idx>>
    /\ UNCHANGED <<imapState, connPromise, listeners, connEvents,
                   connRet, serverVars, categories, op, runs, catIdx,
                   emailUids, totalProcessed, log, warned, pureVars, extVars>>

hasKey(batch, category) ==
    \E i \in 1..Len(batch) : batch[i].category = category

\* A push on lists that are one shared array: the message joins every list.
pushShared(batch, category, email) ==
    [i \in 1..Len(batch) |-> [batch[i] EXCEPT !.emails = Append(@, email)]]

\* A push that ignores the key: the message joins the first list of the batch.
pushFirst(batch, category, email) ==
    [i \in 1..Len(batch) |->
        IF i = 1
        THEN [batch[i] EXCEPT !.emails = Append(@, email)]
        ELSE batch[i]]

\* sortedEmails[category].push(email)
push(batch, category, email) ==
    [i \in 1..Len(batch) |->
        IF batch[i].category = category
        THEN [batch[i] EXCEPT !.emails = Append(@, email)]
        ELSE batch[i]]

\* One turn of the classify-and-group loop of sortEmails.  Pushing to a key
\* the batch does not have is a TypeError, caught by sortEmails.
Classify ==
    /\ pc = "classify"
    /\ op \in GroupingOps
    /\ idx <= Len(emails)
    /\ \E answer \in RunAnswers :
           LET category == categorizeEmail(answer, categories)
               email == [emails[idx] EXCEPT !.category = category]
           IN  IF hasKey(sortedEmails, category)
               THEN /\ emails' = [emails EXCEPT ![idx] = email]
                    /\ sortedEmails' = push(sortedEmails, category, email)
                    /\ idx' = idx + 1
                    /\ UNCHANGED <<pc, ending, closeThrew, lastClose, result>>
               ELSE /\ SortFail(imapState, "TypeError")
                    /\ UNCHANGED <<emails, sortedEmails, idx>>
    /\ UNCHANGED <<imapState, connPromise, listeners, connEvents,
                   connRet, serverVars, categories, op, runs, catIdx,
                   emailUids, totalProcessed, log, warned, faults, pureVars, extVars>>

---------------------------------------------------------------------------
\* POST sort-email/sort-by-category: sortEmailsByCategory up to its call of
\* processSortedEmails.

\* A match on the exact name only: no case folding, no encoded variant.
categoryExistsExact(listing, categoryName) ==
    \E i \in 1..Len(listing) : listing[i] = categoryName

\* Whether ensureCategoryExists finds the folder in the listing.
categoryExists(listing, categoryName) ==
    \E i \in 1..Len(listing) :
        \/ toLowerCase(listing[i]) = toLowerCase(categoryName)
        \/ listing[i] = normalizeMailboxName(categoryName)

\* sortEmailsByCategory(categoryName), categoryName being one of names: a
\* category that this.categories does not include is first ensured, on the
\* session as the last request left it.
sortEmailsByCategory(names) ==
    /\ pc = "idle"
    /\ runs < MaxRuns
    /\ op' = "bycat"
    /\ runs' = runs + 1
    /\ UNCHANGED <<result, emails, idx, catIdx, emailUids, totalProcessed,
                   log, warned>>
    /\ \E categoryName \in names :
           /\ sortedEmails' = <<[category |-> categoryName, emails |-> <<>>]>>
           /\ IF includes(categories, categoryName)
              THEN /\ connectToImap("open_inbox")
              ELSE /\ pc' = "bycat_ensure"
                   /\ UNCHANGED sessionVars
    /\ UNCHANGED <<serverVars, categories, closeThrew, lastClose, faults,
                   pureVars, extVars>>

\* POST sort-by-category.
StartSortByCategory == sortEmailsByCategory(ByCategoryNames)

\* ensureCategoryExists(categoryName) of sortEmailsByCategory: getBoxes.
ByCategoryEnsure ==
    /\ pc = "bycat_ensure"
    /\ \E ok \in Outcomes :
           IF ok
           THEN /\ IF categoryExists(boxes, sortedEmails[1].category)
                   THEN connectToImap("open_inbox")
                   ELSE /\ pc' = "bycat_add"
                        /\ UNCHANGED sessionVars
                /\ UNCHANGED <<closeThrew, lastClose, faults, result>>
           ELSE /\ SortFail(imapState, "imap")
                /\ faults' = TRUE
                /\ UNCHANGED <<imapState, connPromise, listeners,
                               connEvents, connRet>>
    /\ UNCHANGED <<serverVars, categories, op, runs, runVars, pureVars, extVars>>

\* ensureCategoryExists(categoryName) of sortEmailsByCategory: addBox.
ByCategoryAddBox ==
    /\ pc = "bycat_add"
    /\ \E ok \in Outcomes :
           IF ok
           THEN /\ boxes' = Append(boxes, normalizeMailboxName(
                                              sortedEmails[1].category))
                /\ connectToImap("open_inbox")
                /\ UNCHANGED <<closeThrew, lastClose, faults,
                               result>>
           ELSE /\ SortFail(imapState, "imap")
                /\ faults' = TRUE
                /\ UNCHANGED <<boxes, imapState, connPromise,
                               listeners, connEvents, connRet>>
    /\ UNCHANGED <<content, seen, deleted, selected, categories, op, runs,
                   runVars, pureVars, extVars>>

\* One turn of the loop of sortEmailsByCategory: the classifier is asked OUI
\* or NON outside any try of the loop; its failure reaches the catch of
\* sortEmailsByCategory.
ByCategoryClassify ==
    /\ pc = "classify"
    /\ op = "bycat"
    /\ idx <= Len(emails)
    /\ \E response \in ByCategoryAnswers :
           IF response.kind = "throw"
           THEN /\ SortFail(imapState, "classifier")
                /\ UNCHANGED <<emails, sortedEmails, idx>>
           ELSE LET answer ==
                        IF response.kind = "text"
                           /\ trim(response.content) # <<>>
                        THEN toUpperCase(trim(response.content))
                        ELSE NON
                    category == sortedEmails[1].category
                    email == [emails[idx] EXCEPT !.category = category]
                IN  /\ IF answer = OUI
                       THEN /\ emails' = [emails EXCEPT ![idx] = email]
                            /\ sortedEmails' =
                                   push(sortedEmails, category, email)
                       ELSE UNCHANGED <<emails, sortedEmails>>
                    /\ idx' = idx + 1
                    /\ UNCHANGED <<pc, ending, closeThrew, lastClose, result>>
    /\ UNCHANGED <<imapState, connPromise, listeners, connEvents,
                   connRet, serverVars, categories, op, runs, catIdx,
                   emailUids, totalProcessed, log, warned, faults, pureVars, extVars>>

\* sortEmailsByCategory found no unread message or no matching one: return 0.
ByCategoryReturnZero ==
    /\ pc = "classify"
    /\ op = "bycat"
    /\ idx > Len(emails)
    /\ sortedEmails[1].emails = <<>>
    /\ result' = [kind |-> "ok", success |-> TRUE, stats |-> <<>>,
                  emailsProcessed |-> 0]
    /\ pc' = "done"
    /\ UNCHANGED <<sessionVars, serverVars, categories, op, runs, runVars,
                   closeThrew, lastClose, faults, pureVars, extVars>>

---------------------------------------------------------------------------
\* processSortedEmails.

\* Index of the next key of sortedEmails, from catIdx on, whose list is not
\* empty (0: none): for (category of Object.keys(...)) { if empty continue }.
NextCat ==
    IF \E k \in catIdx..Len(sortedEmails) : sortedEmails[k].emails # <<>>
    THEN CHOOSE k \in catIdx..Len(sortedEmails) :
             /\ sortedEmails[k].emails # <<>>
             /\ \A j \in catIdx..(k - 1) : sortedEmails[j].emails = <<>>
    ELSE 0

CurCategory == sortedEmails[catIdx].category

Cmd(cmd, ok) ==
    [cmd |-> cmd, cat |-> CurCategory, uids |-> emailUids, ok |-> ok]

\* .filter(email => email.uid).map(email => email.uid)
RECURSIVE validUids(_)
validUids(list) ==
    IF list = <<>> THEN <<>>
    ELSE IF Head(list).uid # 0
         THEN <<Head(list).uid>> \o validUids(Tail(list))
         ELSE validUids(Tail(list))

\* stats = Object.entries(sortedEmails).map(([c, e]) => ({c, count: e.length}))
stats(batch) ==
    [i \in 1..Len(batch) |->
        [category |-> batch[i].category, count |-> Len(batch[i].emails)]]

\* processSortedEmails has returned: the controller builds its answer (POST
\* sort), sortEmailsByCategory returns matchingEmails.length.
Respond ==
    /\ result' = IF op # "bycat"
                 THEN [kind |-> "ok", success |-> TRUE,
                       stats |-> stats(sortedEmails), emailsProcessed |-> 0]
                 ELSE [kind |-> "ok", success |-> TRUE, stats |-> <<>>,
                       emailsProcessed |-> Len(sortedEmails[1].emails)]
    /\ pc' = "done"

\* closeConnection calls that follow one another when processSortedEmails
\* ends: its own, and the one sortEmailsByCategory makes right after it.
CloseCount == IF op = "bycat" THEN 2 ELSE 1

\* The catch of processSortedEmails: the error is logged, closeConnection is
\* called and processSortedEmails returns normally.
ProcFail ==
    /\ Close(CloseCount, imapState)
    /\ faults' = TRUE
    /\ Respond

\* processSortedEmails is called with the batch of a request of ops: the
\* session is reconnected if its state is unset or 'disconnected'.
processSortedEmails(ops) ==
    /\ pc = "classify"
    /\ idx > Len(emails)
    /\ op \in ops
    /\ op = "bycat" => sortedEmails[1].emails # <<>>
    /\ catIdx' = 1
    /\ log' = <<>>
    /\ IF imapState = "disconnected"
       THEN /\ connectToImap("proc_loop")
       ELSE /\ pc' = "proc_loop"
            /\ UNCHANGED sessionVars
    /\ UNCHANGED <<serverVars, categories, op, runs, emails, idx,
                   sortedEmails, emailUids, totalProcessed, warned,
                   closeThrew, lastClose, faults, result, pureVars, extVars>>

\* The controller (POST sort, POST sort-all) or sortEmailsByCategory calls
\* processSortedEmails.
ProcStart == processSortedEmails({"sort", "sortAll", "bycat"})

\* The second connectToImap of processSortedEmails is rejected too: the
\* outer catch.
ConnectRejectedForced ==
    /\ "error" \in listeners
    /\ connPromise = "pending"
    /\ connRet = "proc_loop_forced"
    /\ listeners' = listeners \ {"error"}
    /\ connEvents' = Append(connEvents, "error")
    /\ connPromise' = settle(connPromise, "rejected")
    /\ imapState' = "disconnected"
    /\ Close(CloseCount, "disconnected")
    /\ faults' = TRUE
    /\ Respond
    /\ UNCHANGED <<connRet, serverVars, categories, op, runs,
                   runVars, pureVars, extVars>>

\* Every key of sortedEmails has been handled: closeConnection and return.
ProcDone ==
    /\ pc = "proc_loop"
    /\ NextCat = 0
    /\ Close(CloseCount, imapState)
    /\ Respond
    /\ UNCHANGED <<imapState, connPromise, listeners, connEvents,
                   connRet, serverVars, categories, op, runs, runVars, faults,
                   pureVars, extVars>>

\* ensureCategoryExists of the next non-empty category: the getBoxes call.
EnsureCategoryExists ==
    /\ pc = "proc_loop"
    /\ NextCat # 0
    /\ catIdx' = NextCat
    /\ emailUids' = <<>>
    /\ \E ok \in Outcomes :
           /\ log' = Append(log, [cmd |-> "getBoxes",
                                  cat |-> sortedEmails[NextCat].category,
                                  uids |-> <<>>, ok |-> ok])
           /\ IF ok
              THEN /\ pc' = IF categoryExists(boxes,
                                   sortedEmails[NextCat].category)
                            THEN "open_source" ELSE "add_box"
                   /\ UNCHANGED <<ending, closeThrew, lastClose, faults,
                                  result>>
              ELSE ProcFail
    /\ UNCHANGED <<imapState, connPromise, listeners, connEvents,
                   connRet, serverVars, categories, op, runs, emails, idx,
                   sortedEmails, totalProcessed, warned, pureVars, extVars>>

\* ensureCategoryExists: addBox(normalizedName).
AddBox ==
    /\ pc = "add_box"
    /\ \E ok \in Outcomes :
           /\ log' = Append(log, Cmd("addBox", ok))
           /\ IF ok
              THEN /\ boxes' = Append(boxes,
                                      normalizeMailboxName(CurCategory))
                   /\ pc' = "open_source"
                   /\ UNCHANGED <<ending, closeThrew, lastClose, faults,
                                  result>>
              ELSE /\ ProcFail
                   /\ UNCHANGED boxes
    /\ UNCHANGED <<imapState, connPromise, listeners, connEvents,
                   connRet, content, seen, deleted, selected, categories, op,
                   runs, emails, idx, sortedEmails, catIdx, emailUids,
                   totalProcessed, warned, pureVars, extVars>>

\* openBox('INBOX', false), then the UIDs of the category; a category without
\* any valid UID is warned about and left.
OpenSource ==
    /\ pc = "open_source"
    /\ \E ok \in Outcomes :
           /\ log' = Append(log, Cmd("openBox", ok))
           /\ IF ok
              THEN LET uids == validUids(sortedEmails[catIdx].emails)
                   IN  /\ selected' = INBOX
                       /\ emailUids' = uids
                       /\ IF uids = <<>>
                          THEN /\ warned' = warned \cup {CurCategory}
                               /\ catIdx' = catIdx + 1
                               /\ pc' = "proc_loop"
                          ELSE /\ pc' = "set_flags"
                               /\ UNCHANGED <<warned, catIdx>>
                       /\ UNCHANGED <<ending, closeThrew, lastClose, faults,
                                  result>>
              ELSE /\ ProcFail
                   /\ UNCHANGED <<selected, emailUids, warned, catIdx>>
    /\ UNCHANGED <<imapState, connPromise, listeners, connEvents,
                   connRet, boxes, content, seen, deleted, categories, op,
                   runs, emails, idx, sortedEmails, totalProcessed,
                   pureVars, extVars>>

UidSet == Range(emailUids)

\* Frame of the four relocation commands.
RelocationFrame ==
    UNCHANGED <<imapState, connPromise, listeners, connEvents,
                connRet, boxes, selected, categories, op, runs, emails, idx,
                sortedEmails, emailUids, warned, pureVars, extVars>>

\* A setFlags whose callback resolves on an error too: the copy follows.
SetFlagsErrorIgnored ==
    /\ pc = "set_flags"
    /\ \E ok \in Outcomes :
           /\ log' = Append(log, Cmd("setFlags", ok))
           /\ seen' = IF ok THEN seen \cup (UidSet \cap content[selected])
                      ELSE seen
           /\ deleted' = IF ok THEN deleted \ UidSet ELSE deleted
           /\ faults' = (faults \/ ~ok)
           /\ pc' = "copy"
    /\ UNCHANGED <<ending, closeThrew, lastClose, result>>
    /\ UNCHANGED <<content, catIdx, totalProcessed>>
    /\ RelocationFrame

\* 1. setFlags(emailUids, ['\\Seen']): the flags of the messages become \Seen.
SetFlags ==
    /\ pc = "set_flags"
    /\ \E ok \in Outcomes :
           /\ log' = Append(log, Cmd("setFlags", ok))
           /\ IF ok
              THEN /\ seen' = seen \cup (UidSet \cap content[selected])
                   /\ deleted' = deleted \ UidSet
                   /\ pc' = "copy"
                   /\ UNCHANGED <<ending, closeThrew, lastClose, faults,
                                  result>>
              ELSE /\ ProcFail
                   /\ UNCHANGED <<seen, deleted>>
    /\ UNCHANGED <<content, catIdx, totalProcessed>>
    /\ RelocationFrame

\* The server accepts a copy only into a folder it holds.
CopyOutcomes(dest) ==
    IF dest \in Range(boxes) THEN Outcomes ELSE {FALSE}

\* 2. copy(emailUids, folderName); onError tells what the callback does with
\* an error: "reject" as the code does.
CopyStep(onError) ==
    /\ pc = "copy"
    /\ LET folderName == normalizeMailboxName(CurCategory)
       IN  \E ok \in CopyOutcomes(folderName) :
               /\ log' = Append(log, Cmd("copy", ok))
               /\ content' = IF ok
                             THEN [content EXCEPT ![folderName] =
                                      @ \cup (UidSet \cap content[selected])]
                             ELSE content
               /\ IF ok \/ onError # "reject"
                  THEN /\ pc' = "add_flags"
                       /\ faults' = (faults \/ ~ok)
                       /\ UNCHANGED <<ending, closeThrew, lastClose, result>>
                  ELSE ProcFail
    /\ UNCHANGED <<seen, deleted, catIdx, totalProcessed>>
    /\ RelocationFrame

\* The copy whose callback resolves on an error too.
CopyErrorIgnored == CopyStep("resolve")

Copy == CopyStep("reject")

\* An addFlags that flags every message of the selected folder.
AddFlagsAll ==
    /\ pc = "add_flags"
    /\ \E ok \in Outcomes :
           /\ log' = Append(log, Cmd("addFlags", ok))
           /\ IF ok
              THEN /\ deleted' = deleted \cup content[selected]
                   /\ pc' = "expunge"
                   /\ UNCHANGED <<ending, closeThrew, lastClose, faults,
                                  result>>
              ELSE /\ ProcFail
                   /\ UNCHANGED deleted
    /\ UNCHANGED <<content, seen, catIdx, totalProcessed>>
    /\ RelocationFrame

\* 3. addFlags(emailUids, ['\\Deleted']).
AddFlags ==
    /\ pc = "add_flags"
    /\ \E ok \in Outcomes :
           /\ log' = Append(log, Cmd("addFlags", ok))
           /\ IF ok
              THEN /\ deleted' = deleted \cup (UidSet \cap content[selected])
                   /\ pc' = "expunge"
                   /\ UNCHANGED <<ending, closeThrew, lastClose, faults,
                                  result>>
              ELSE /\ ProcFail
                   /\ UNCHANGED deleted
    /\ UNCHANGED <<content, seen, catIdx, totalProcessed>>
    /\ RelocationFrame

\* 4. expunge(): the messages flagged \Deleted leave the selected folder;
\* then totalProcessed += emailUids.length and the loop goes on.
Expunge ==
    /\ pc = "expunge"
    /\ \E ok \in Outcomes :
           /\ log' = Append(log, Cmd("expunge", ok))
           /\ IF ok
              THEN /\ content' = [content EXCEPT ![selected] = @ \ deleted]
                   /\ seen' = seen \ deleted
                   /\ deleted' = {}
                   /\ totalProcessed' = totalProcessed + Len(emailUids)
                   /\ catIdx' = catIdx + 1
                   /\ pc' = "proc_loop"
                   /\ UNCHANGED <<ending, closeThrew, lastClose, faults,
                                  result>>
              ELSE /\ ProcFail
                   /\ UNCHANGED <<content, seen, deleted, totalProcessed,
                                  catIdx>>
    /\ RelocationFrame

\* The request is over: its locals and its promise are unreachable.
Return ==
    /\ pc = "done"
    /\ pc' = "idle"
    /\ ResetRun
    /\ result' = NoResult
    /\ lastClose' = <<>>
    /\ connPromise' = "none"
    /\ connEvents' = <<>>
    /\ connRet' = "none"
    /\ faults' = FALSE
    /\ op' = "none"
    /\ UNCHANGED <<imapState, ending, listeners, serverVars, categories,
                   runs, closeThrew, pureVars, extVars>>

Next ==
    \/ OnModuleInit
    \/ TransportReady
    \/ TransportErrorLate
    \/ ConnectRejectedInit
    \/ ConnectRejectedFetch
    \/ ConnectRejectedProc
    \/ ConnectRejectedForced
    \/ TransportClose
    \/ InitializeCategories
    \/ ListMailboxes
    \/ StartSort
    \/ StartSortByCategory
    \/ ByCategoryEnsure
    \/ ByCategoryAddBox
    \/ ByCategoryClassify
    \/ ByCategoryReturnZero
    \/ OpenInbox
    \/ SearchAndFetch
    \/ Classify
    \/ ProcStart
    \/ ProcDone
    \/ EnsureCategoryExists
    \/ AddBox
    \/ OpenSource
    \/ SetFlags
    \/ Copy
    \/ AddFlags
    \/ Expunge
    \/ Return

Spec == Init /\ [][Next]_vars

---------------------------------------------------------------------------
\* The same service started with one message more in INBOX and one request
\* left: a classification batch of three non-empty categories.

BatchInit ==
    /\ InitService
    /\ OneAtATime
    /\ clock = 0
    /\ dates = <<>>
    /\ unparsable = {}
    /\ pc = "boot"
    /\ runs = MaxRuns - 1
    /\ boxes \in InitListings
    /\ content = [f \in FolderNames |->
                     IF f = INBOX THEN 1..(MaxMsgs + 1) ELSE {}]

BatchSpec == BatchInit /\ [][Next]_vars

---------------------------------------------------------------------------
\* initializeCategories and categorizeEmail on their own: the listing of the
\* server and the answer of the classifier are drawn from bounded sets.

\* Names a server listing is made of.
ListedNames == {INBOX, Gmail, Factures, Autre, autre, Recus}

\* Every listing of at most n distinct names (the keys of the boxes object).
Listings(n) ==
    {l \in UNION {[1..k -> ListedNames] : k \in 0..n} :
        \A i, j \in 1..Len(l) : i # j => l[i] # l[j]}

\* Answers of the classifier: a failed or timed-out call, an answer without
\* content, empty or blank text, labels in another case, padded, or unknown.
Answers == {Throws, NoContent, Text(<<>>), Text(<<" ", "\n">>), Text(autre),
            Text(FACTURES), Text(<<" ">> \o Factures \o <<"\n">>),
            Text(Recus), Text(Spam)}

FunctionInit ==
    /\ InitService
    /\ OneAtATime
    /\ clock = 0
    /\ dates = <<>>
    /\ unparsable = {}
    /\ pc = "listing"
    /\ runs = 0
    /\ boxes \in Listings(MaxListing)
    /\ content = [f \in FolderNames |-> {}]

\* initializeCategories runs on the listing; the getBoxes call may fail.
ApplyInitializeCategories ==
    /\ pc = "listing"
    /\ \E err \in BOOLEAN :
           /\ categories' = initializeCategories(err, boxes)
           /\ pc' = IF err THEN "listing_failed" ELSE "listed"
    /\ UNCHANGED <<sessionVars, serverVars, op, runs, runVars, closeThrew,
                   lastClose, faults, result, pureVars, extVars>>

\* categorizeEmail runs on a classifier answer, with the categories as they
\* are: none before initializeCategories ran.
ApplyCategorizeEmail ==
    /\ pc \in {"listing", "listing_failed", "listed"}
    /\ \E answer \in Answers :
           /\ lastAnswer' = answer
           /\ lastCategory' = categorizeEmail(answer, categories)
    /\ UNCHANGED <<sessionVars, serverVars, categories, pc, op, runs, runVars,
                   closeThrew, lastClose, faults, result, extVars>>

FunctionNext ==
    \/ ApplyInitializeCategories
    \/ ApplyCategorizeEmail

FunctionSpec == FunctionInit /\ [][FunctionNext]_vars

---------------------------------------------------------------------------
\* POST sort-by-category for a category whose folder the server holds under
\* another case or under its encoded name, or does not hold, with one request
\* left.

\* Folder listings of the server when the module starts.
EnsureListings == {<<INBOX, RecusEncoded>>, <<INBOX, Autre>>,
                   <<INBOX, Factures>>}

\* Category names the request is made with.
EnsureNames == {Recus, autre}

EnsureInit ==
    /\ InitService
    /\ OneAtATime
    /\ clock = 0
    /\ dates = <<>>
    /\ unparsable = {}
    /\ pc = "boot"
    /\ runs = MaxRuns - 1
    /\ boxes \in EnsureListings
    /\ content = [f \in FolderNames |->
                     IF f = INBOX THEN 1..(MaxMsgs - 1) ELSE {}]

StartSortByCategoryNamed == sortEmailsByCategory(EnsureNames)

EnsureNext ==
    \/ Next
    \/ StartSortByCategoryNamed

EnsureSpec == EnsureInit /\ [][EnsureNext]_vars

---------------------------------------------------------------------------
\* POST sort-all, POST analyze-invoices and the fetch of all folders behind
\* POST analyze-all-folders/unread and /all.

\* POST sort-all: sortAllEmails -> getAllEmails -> connectToImap.
StartSortAll ==
    /\ pc = "idle"
    /\ runs < MaxRuns
    /\ op' = "sortAll"
    /\ runs' = runs + 1
    /\ connectToImap("open_inbox")
    /\ UNCHANGED <<serverVars, categories, runVars, closeThrew, lastClose,
                   faults, result, pureVars, extVars>>

\* POST analyze-invoices: sortEmails -> getUnsortedEmails -> connectToImap.
StartAnalyzeInvoices ==
    /\ pc = "idle"
    /\ runs < MaxRuns
    /\ op' = "invoices"
    /\ runs' = runs + 1
    /\ connectToImap("open_inbox")
    /\ UNCHANGED <<serverVars, categories, runVars, closeThrew, lastClose,
                   faults, result, pureVars, extVars>>

\* POST analyze-all-folders/unread and /all: sortEmailsFromAllFolders or
\* sortAllEmailsFromAllFolders -> get...EmailsFromAllFolders -> connectToImap.
StartAllFolders ==
    /\ pc = "idle"
    /\ runs < MaxRuns
    /\ op' \in {"folders", "foldersAll"}
    /\ runs' = runs + 1
    /\ connectToImap("get_boxes")
    /\ UNCHANGED <<serverVars, categories, runVars, closeThrew, lastClose,
                   faults, result, pureVars, extVars>>

\* The transport signals 'error' while the fetch of all folders awaits
\* connectToImap: its catch logs and rethrows, the catch of the sort closes
\* the connection and rethrows.
ConnectRejectedFolders ==
    /\ "error" \in listeners
    /\ connPromise = "pending"
    /\ connRet = "get_boxes"
    /\ listeners' = listeners \ {"error"}
    /\ connEvents' = Append(connEvents, "error")
    /\ connPromise' = settle(connPromise, "rejected")
    /\ imapState' = "disconnected"
    /\ faults' = TRUE
    /\ SortFail("disconnected", "imap")
    /\ UNCHANGED <<connRet, serverVars, categories, op, runs,
                   runVars, pureVars, extVars>>

\* getBoxes of the fetch of all folders: folders = Object.keys(boxes); its
\* error rejects the fetch.
GetBoxes ==
    /\ pc = "get_boxes"
    /\ \E ok \in Outcomes :
           IF ok
           THEN /\ folderIdx' = 1
                /\ emails' = <<>>
                /\ log' = <<>>
                /\ pc' = "open_folder"
                /\ UNCHANGED <<ending, closeThrew, lastClose, result, faults>>
           ELSE /\ SortFail(imapState, "imap")
                /\ faults' = TRUE
                /\ UNCHANGED <<folderIdx, emails, log>>
    /\ UNCHANGED <<imapState, connPromise, listeners, connEvents, connRet,
                   serverVars, categories, op, runs, idx, sortedEmails,
                   catIdx, emailUids, totalProcessed, warned, pureVars,
                   unparsable, otherVars>>

\* A call the fetch of all folders makes on the session for a folder.
FolderCmd(cmd, folder, uids, ok) ==
    [cmd |-> cmd, cat |-> folder, uids |-> uids, ok |-> ok]

\* Frame of the steps of the loop over the folders.
FolderFrame ==
    UNCHANGED <<imapState, ending, connPromise, listeners, connEvents,
                connRet, boxes, content, deleted, categories, op, runs, idx,
                sortedEmails, catIdx, emailUids, totalProcessed, warned,
                closeThrew, lastClose, result, pureVars, unparsable,
                otherVars>>

\* openBox(folder, false) of the loop.  On a session that is not
\* authenticated the call raises: the catch of the loop body goes to the next
\* folder.  Otherwise its callback resolves, with or without an error, and
\* the search follows.  A folder that could not be opened leaves the session
\* without a selected folder; onFailure = "keep" tells of a session that
\* would keep the previous one.
OpenFolderStep(onFailure) ==
    /\ pc = "open_folder"
    /\ folderIdx <= Len(boxes)
    /\ LET folder == boxes[folderIdx]
       IN  IF imapState # "authenticated"
           THEN /\ log' = Append(log, FolderCmd("openBox", folder, <<>>,
                                                FALSE))
                /\ folderIdx' = folderIdx + 1
                /\ faults' = TRUE
                /\ UNCHANGED <<selected, pc>>
           ELSE \E ok \in BOOLEAN :
                    /\ log' = Append(log, FolderCmd("openBox", folder, <<>>,
                                                    ok))
                    /\ selected' = IF ok THEN folder
                                   ELSE IF onFailure = "keep" THEN selected
                                   ELSE <<>>
                    /\ faults' = (faults \/ ~ok)
                    /\ pc' = "search_folder"
                    /\ UNCHANGED folderIdx
    /\ UNCHANGED <<emails, seen>>
    /\ FolderFrame

\* The openBox after whose failure the previous folder stays selected.
OpenFolderKeepsSelection == OpenFolderStep("keep")

OpenFolder == OpenFolderStep("deselect")

\* The messages of a folder as the fetch delivers them.
FolderEmails(results, folder) ==
    [i \in 1..Len(results) |->
        [msg |-> results[i], uid |-> results[i], category |-> <<>>,
         folderPath |-> folder]]

\* search and fetch of the loop.  Without a selected folder (or on a session
\* that is not authenticated) the search call raises before any command is
\* sent: the catch of the loop body goes to the next folder.  An error of the
\* search or of the fetch resolves to no message; a body that fails to parse
\* rejects Promise.all, whose catch resolves to no message either.  The
\* messages are tagged with the folder of the loop.  markSeen is the option
\* given to fetch: false as the code does.
SearchFolderStep(markSeen) ==
    /\ pc = "search_folder"
    /\ LET folder == boxes[folderIdx]
       IN  IF imapState # "authenticated" \/ selected = <<>>
           THEN /\ log' = Append(log, FolderCmd("search", folder, <<>>,
                                                FALSE))
                /\ faults' = TRUE
                /\ UNCHANGED <<emails, seen>>
           ELSE \E ok \in BOOLEAN :
                    LET results == IF ok THEN SearchResults ELSE <<>>
                        parsed == Range(results) \cap unparsable = {}
                    IN  /\ log' = Append(log, FolderCmd("search", folder,
                                                        results, ok))
                        /\ emails' = IF parsed
                                     THEN emails
                                              \o FolderEmails(results, folder)
                                     ELSE emails
                        /\ seen' = IF markSeen
                                   THEN seen \cup Range(results)
                                   ELSE seen
                        /\ faults' = (faults \/ ~ok \/ ~parsed)
    /\ folderIdx' = folderIdx + 1
    /\ pc' = "open_folder"
    /\ UNCHANGED selected
    /\ FolderFrame

\* The fetch that marks the messages it delivers as seen.
SearchFolderMarkSeen == SearchFolderStep(TRUE)

SearchFolder == SearchFolderStep(FALSE)

\* if (limit && allEmails.length > limit) return allEmails.slice(0, limit):
\* what the fetch of all folders returns of the messages it collected.
limitTotal(allEmails, l) ==
    IF l # 0 /\ Len(allEmails) > l THEN slice(allEmails, l) ELSE allEmails

\* The loop over the folders is over: the fetch returns the collected
\* messages, cut to the limit, and the sort starts grouping.
FoldersDone ==
    /\ pc = "open_folder"
    /\ folderIdx > Len(boxes)
    /\ folderIdx' = 1
    /\ sortedEmails' = emptyBatch(categories)
    /\ idx' = 1
    /\ pc' = "classify"
    /\ emails' = limitTotal(emails, limit)
    /\ UNCHANGED <<sessionVars, serverVars, categories, op, runs,
                   catIdx, emailUids, totalProcessed, log, warned,
                   closeThrew, lastClose, faults, result, pureVars,
                   unparsable, otherVars>>

\* Requests that analyse the invoices and move nothing.
AnalysisOps == {"invoices", "folders", "foldersAll"}

\* The sort has returned to an analysis endpoint: analyzeInvoices, which
\* uses no session and catches its errors, then the answer.
AnalyzeInvoices ==
    /\ pc = "classify"
    /\ op \in AnalysisOps
    /\ idx > Len(emails)
    /\ result' = [kind |-> "ok", success |-> TRUE, stats |-> <<>>,
                  emailsProcessed |-> 0]
    /\ pc' = "done"
    /\ UNCHANGED <<sessionVars, serverVars, categories, op, runs, runVars,
                   closeThrew, lastClose, faults, pureVars, extVars>>

\* The folder other than INBOX that holds messages when the module starts.
OtherFolder(listing) ==
    IF listing[Len(listing)] # INBOX THEN listing[Len(listing)]
    ELSE listing[1]

\* The service started on a server whose messages are spread over INBOX and
\* another folder, the body of message 1 being parsable or not, with one
\* request left.
FoldersInit ==
    /\ InitService
    /\ OneAtATime
    /\ clock = 0
    /\ dates = <<>>
    /\ pc = "boot"
    /\ runs = MaxRuns - 1
    /\ boxes \in InitListings
    /\ \E inInbox \in SUBSET (1..MaxMsgs) :
           content = [f \in FolderNames |->
                         IF f = INBOX THEN inInbox
                         ELSE IF f = OtherFolder(boxes)
                              THEN (1..MaxMsgs) \ inInbox
                              ELSE {}]
    /\ unparsable \in {{}, {1}}

FoldersNext ==
    \/ Next
    \/ StartSortAll
    \/ StartAnalyzeInvoices
    \/ StartAllFolders
    \/ ConnectRejectedFolders
    \/ GetBoxes
    \/ OpenFolder
    \/ SearchFolder
    \/ FoldersDone
    \/ AnalyzeInvoices

FoldersSpec == FoldersInit /\ [][FoldersNext]_vars

---------------------------------------------------------------------------
\* The fetches called with a limit.  No endpoint of the controller passes
\* one; sortEmails(limit) and sortEmailsFromAllFolders(limit) hand theirs to
\* the fetch of INBOX and to the fetch of all folders.

MaxLimit == 1

Limits == 1..MaxLimit

\* sortEmails(l) -> getUnsortedEmails(l) -> connectToImap.
StartSortLimited ==
    /\ pc = "idle"
    /\ runs < MaxRuns
    /\ op' = "sort"
    /\ runs' = runs + 1
    /\ limit' \in Limits
    /\ connectToImap("open_inbox")
    /\ UNCHANGED <<serverVars, categories, runVars, closeThrew, lastClose,
                   faults, result, pureVars, folderIdx, unparsable,
                   todayVars, concVars, fetch, batchRun>>

\* sortEmailsFromAllFolders(l) -> getUnsortedEmailsFromAllFolders(l) ->
\* connectToImap.
StartAllFoldersLimited ==
    /\ pc = "idle"
    /\ runs < MaxRuns
    /\ op' = "folders"
    /\ runs' = runs + 1
    /\ limit' \in Limits
    /\ connectToImap("get_boxes")
    /\ UNCHANGED <<serverVars, categories, runVars, closeThrew, lastClose,
                   faults, result, pureVars, folderIdx, unparsable,
                   todayVars, concVars, fetch, batchRun>>

\* The service started on a server whose unread messages are spread over
\* INBOX and another folder, with one request left.
LimitInit ==
    /\ InitService
    /\ OneAtATime
    /\ clock = 0
    /\ dates = <<>>
    /\ unparsable = {}
    /\ pc = "boot"
    /\ runs = MaxRuns - 1
    /\ boxes \in InitListings
    /\ \E inInbox \in SUBSET (1..MaxMsgs) :
           content = [f \in FolderNames |->
                         IF f = INBOX THEN inInbox
                         ELSE IF f = OtherFolder(boxes)
                              THEN (1..MaxMsgs) \ inInbox
                              ELSE {}]

LimitNext ==
    \/ FoldersNext
    \/ StartSortLimited
    \/ StartAllFoldersLimited

LimitSpec == LimitInit /\ [][LimitNext]_vars

---------------------------------------------------------------------------
\* One imap.fetch of getUnsortedEmails (part_006 204-294) and of
\* getTodayEmails (analyze_email.service.ts 244-323): the 'message' handler
\* makes one email object and one promise per message; the 'body' stream of
\* the message ends and simpleParser runs asynchronously; 'attributes'
\* delivers the UID; 'end' of the fetch waits for every promise.  The library
\* delivers the messages one after the other, both events of a message
\* before the next message and before the 'end' of the fetch, in either
\* order; a parse completes at any later time.

MaxFetched == 2

Digits == <<"0", "1", "2", "3", "4", "5", "6", "7", "8", "9">>

\* String(n) of a non-negative integer: its decimal digits.
RECURSIVE String(_)
String(n) ==
    IF n < 10 THEN <<Digits[n + 1]>>
    ELSE String(n \div 10) \o <<Digits[(n % 10) + 1]>>

\* const email = { id: String(seqno) }: no uid, no imapUID, nothing parsed.
NewEmail == [uid |-> 0, imapUID |-> <<>>, parsed |-> FALSE]

PendingPromise == [state |-> "pending", ref |-> 0, val |-> NewEmail]

RejectedPromise == [state |-> "rejected", ref |-> 0, val |-> NewEmail]

\* A promise resolved with a copy of the email object as it is at that time.
resolveEmailCopy(m, objs) ==
    [state |-> "resolved", ref |-> 0, val |-> objs[m]]

\* resolveEmail(email): the promise holds the email object itself.
resolveEmail(m, objs) ==
    [state |-> "resolved", ref |-> m, val |-> NewEmail]

\* The email a resolved promise gives to its reader.
valueOf(p, objs) == IF p.ref # 0 THEN objs[p.ref] ELSE p.val

FetchFrame ==
    UNCHANGED <<sessionVars, serverVars, categories, pc, op, runs, runVars,
                closeThrew, lastClose, faults, result, pureVars, folderIdx,
                unparsable, todayVars, concVars, limit, batchRun>>

\* this.imap.fetch(finalResults, ...) for the identifiers of a search that
\* found some, in one of the two services.
FetchStart ==
    /\ fetch = NoFetch
    /\ \E S \in SUBSET content[INBOX], v \in {"sort", "today"} :
           /\ S # {}
           /\ fetch' = [NoFetch EXCEPT !.variant = v, !.ids = SortedSeq(S),
                                       !.outcome = "pending"]
    /\ FetchFrame

\* Both events of the message being delivered have been emitted.
Delivered == fetch.cur = 0 \/ (fetch.body /\ fetch.attrs)

\* 'message': a new email object and its promise, pushed to emailPromises.
MessageEvent ==
    /\ fetch.variant # "none"
    /\ ~fetch.ended
    /\ Delivered
    /\ fetch.cur < Len(fetch.ids)
    /\ fetch' = [fetch EXCEPT !.cur = @ + 1, !.body = FALSE, !.attrs = FALSE,
                              !.objs = Append(@, NewEmail),
                              !.promises = Append(@, PendingPromise)]
    /\ FetchFrame

\* 'end' of the body stream of the message: simpleParser starts.
BodyEnd ==
    /\ fetch.cur >= 1
    /\ ~fetch.body
    /\ fetch' = [fetch EXCEPT !.body = TRUE]
    /\ FetchFrame

\* 'attributes' of the message: email.uid = attrs.uid in the sort service,
\* email.imapUID = String(attrs.uid) in the analysis service.
AttributesEvent ==
    /\ fetch.cur >= 1
    /\ ~fetch.attrs
    /\ LET m == fetch.cur
           uid == fetch.ids[m]
       IN  fetch' = [fetch EXCEPT
                        !.attrs = TRUE,
                        !.objs[m] = IF fetch.variant = "sort"
                                    THEN [@ EXCEPT !.uid = uid]
                                    ELSE [@ EXCEPT !.imapUID = String(uid)]]
    /\ FetchFrame

\* The body stream of message m has ended.
Streamed(m) == m < fetch.cur \/ (m = fetch.cur /\ fetch.body)

\* simpleParser settles for a message whose body has ended: the fields of
\* the email are set and its promise resolves with the email, or the promise
\* rejects.
ParseDone ==
    /\ \E m \in 1..fetch.cur :
           /\ Streamed(m)
           /\ fetch.promises[m].state = "pending"
           /\ IF fetch.ids[m] \in unparsable
              THEN fetch' = [fetch EXCEPT !.promises[m] = RejectedPromise]
              ELSE LET objs == [fetch.objs EXCEPT ![m].parsed = TRUE]
                   IN  fetch' =
                           [fetch EXCEPT
                               !.objs = objs,
                               !.promises[m] = resolveEmail(m, objs),
                               !.early = IF m = fetch.cur /\ ~fetch.attrs
                                         THEN @ \cup {m} ELSE @]
    /\ FetchFrame

\* 'end' of the fetch, after the last message: Promise.all(emailPromises).
FetchEnd ==
    /\ fetch.variant # "none"
    /\ ~fetch.ended
    /\ fetch.cur = Len(fetch.ids)
    /\ Delivered
    /\ fetch' = [fetch EXCEPT !.ended = TRUE]
    /\ FetchFrame

\* Promise.all settles: it resolves with the emails of the promises, in the
\* order of the messages, once all have resolved, and rejects once one has
\* rejected.
FetchSettles ==
    /\ fetch.ended
    /\ fetch.outcome = "pending"
    /\ IF \E m \in 1..Len(fetch.promises) :
              fetch.promises[m].state = "rejected"
       THEN fetch' = [fetch EXCEPT !.outcome = "rejected"]
       ELSE /\ \A m \in 1..Len(fetch.promises) :
                   fetch.promises[m].state = "resolved"
            /\ fetch' = [fetch EXCEPT !.outcome = "resolved",
                                      !.returned = fetch.promises]
    /\ FetchFrame

\* The service with an INBOX of MaxFetched messages, some of whose bodies
\* simpleParser rejects, before a fetch.
FetchInit ==
    /\ InitService
    /\ OneAtATime
    /\ clock = 0
    /\ dates = <<>>
    /\ pc = "fetch"
    /\ runs = 0
    /\ boxes = <<INBOX>>
    /\ content = [f \in FolderNames |->
                     IF f = INBOX THEN 1..MaxFetched ELSE {}]
    /\ unparsable \in SUBSET {1}

FetchNext ==
    \/ FetchStart
    \/ MessageEvent
    \/ BodyEnd
    \/ AttributesEvent
    \/ ParseDone
    \/ FetchEnd
    \/ FetchSettles

FetchSpec == FetchInit /\ [][FetchNext]_vars

---------------------------------------------------------------------------
\* Progress of the requests.  The transport may also end while
\* connectToImap waits: the server closes the connection before the login
\* completes, without an error.

\* The transport signals 'end' while connectToImap awaits: its 'end'
\* listener logs 'Connexion IMAP terminée' and calls neither resolve nor
\* reject.  The transport is gone: no listener of the call is invoked after
\* it.
TransportEnd ==
    /\ pc = "connecting"
    /\ connPromise = "pending"
    /\ listeners = {"ready", "error"}
    /\ listeners' = {}
    /\ connEvents' = Append(connEvents, "end")
    /\ imapState' = "disconnected"
    /\ UNCHANGED <<ending, connPromise, connRet, serverVars, categories, pc,
                   op, runs, runVars, closeThrew, lastClose, faults, result,
                   pureVars, extVars>>

\* The service on a server with one folder listing per behaviour, with one
\* request left.
LiveInit ==
    /\ InitService
    /\ OneAtATime
    /\ clock = 0
    /\ dates = <<>>
    /\ unparsable = {}
    /\ pc = "boot"
    /\ runs = MaxRuns - 1
    /\ boxes \in InitListings
    /\ content = [f \in FolderNames |-> IF f = INBOX THEN 1..MaxMsgs ELSE {}]

LiveNext ==
    \/ Next
    \/ TransportEnd

\* Every step that can be taken is eventually taken: the transport signals
\* an event after a connect, the server answers each command, the service
\* runs on.
LiveSpec == LiveInit /\ [][LiveNext]_vars /\ WF_vars(LiveNext)

---------------------------------------------------------------------------
\* AnalyzeEmailService.processEmailsInBatches (analyze_email.service.ts
\* 610-657): the emails are analysed BATCH_SIZE at a time; the calls of a
\* batch run concurrently and settle in any order, each catching its own
\* error; a delay separates a batch from the next.

BATCH_SIZE == 5

MaxEmails == 11

\* i + BATCH_SIZE <= emails.length.
notPastEnd(i, n) == i + BATCH_SIZE <= n

\* if (i + BATCH_SIZE < emails.length): this is not the last batch.
notLastBatch(i, n) == i + BATCH_SIZE < n

\* emails.slice(i, i + BATCH_SIZE), as positions 1..n of emails.
batchOf(i, n) ==
    {k \in 1..n : i < k /\ k <= i + BATCH_SIZE}

BatchFrame ==
    UNCHANGED <<sessionVars, serverVars, categories, pc, op, runs, runVars,
                closeThrew, lastClose, faults, result, pureVars, folderIdx,
                unparsable, todayVars, concVars, limit, fetch>>

\* processEmailsInBatches(emails): analyzedEmails = [], i = 0.
ProcessEmailsInBatches ==
    /\ batchRun.pos = "none"
    /\ \E n \in 0..MaxEmails :
           batchRun' = [NoBatchRun EXCEPT !.pos = "loop", !.n = n]
    /\ BatchFrame

\* The loop body starts: batch.map(async ...) calls analyzeEmailContent for
\* every email of the batch.
StartBatch ==
    /\ batchRun.pos = "loop"
    /\ batchRun.i < batchRun.n
    /\ batchRun' = [batchRun EXCEPT
                       !.pos = "calls",
                       !.inFlight = batchOf(batchRun.i, batchRun.n),
                       !.failed = {},
                       !.trail = Append(@, "batch")]
    /\ BatchFrame

\* One analyzeEmailContent call settles: its result is kept, or its error
\* is caught and the email is kept as it is.
CallSettles ==
    /\ batchRun.pos = "calls"
    /\ \E k \in batchRun.inFlight, ok \in BOOLEAN :
           batchRun' = [batchRun EXCEPT
                           !.inFlight = @ \ {k},
                           !.failed = IF ok THEN @ ELSE @ \cup {k}]
    /\ BatchFrame

\* Promise.all resolves: the results of the batch are pushed in the order of
\* the emails; the delay follows unless this was the last batch.
BatchSettled ==
    /\ batchRun.pos = "calls"
    /\ batchRun.inFlight = {}
    /\ LET batch == SortedSeq(batchOf(batchRun.i, batchRun.n))
           batchResults ==
               [j \in 1..Len(batch) |->
                   [email |-> batch[j],
                    analysed |-> batch[j] \notin batchRun.failed]]
           wait == notLastBatch(batchRun.i, batchRun.n)
       IN  batchRun' = [batchRun EXCEPT
                           !.analyzedEmails = @ \o batchResults,
                           !.pos = IF wait THEN "delay" ELSE "loop",
                           !.i = IF wait THEN @ ELSE @ + BATCH_SIZE,
                           !.trail = IF wait THEN Append(@, "delay") ELSE @]
    /\ BatchFrame

\* The timer of the delay fires: i += BATCH_SIZE.
DelayOver ==
    /\ batchRun.pos = "delay"
    /\ batchRun' = [batchRun EXCEPT !.pos = "loop", !.i = @ + BATCH_SIZE]
    /\ BatchFrame

\* The loop is over: return analyzedEmails.
ReturnAnalyzed ==
    /\ batchRun.pos = "loop"
    /\ batchRun.i >= batchRun.n
    /\ batchRun' = [batchRun EXCEPT !.pos = "returned"]
    /\ BatchFrame

\* The service before a call of processEmailsInBatches.
AnalysisInit ==
    /\ InitService
    /\ OneAtATime
    /\ clock = 0
    /\ dates = <<>>
    /\ unparsable = {}
    /\ pc = "analysis"
    /\ runs = 0
    /\ boxes = <<INBOX>>
    /\ content = [f \in FolderNames |-> {}]

AnalysisNext ==
    \/ ProcessEmailsInBatches
    \/ StartBatch
    \/ CallSettles
    \/ BatchSettled
    \/ DelayOver
    \/ ReturnAnalyzed

AnalysisSpec == AnalysisInit /\ [][AnalysisNext]_vars

---------------------------------------------------------------------------
\* processSortedEmails given the batch of a sort of all folders.  The
\* analysis endpoints have this call commented out (part_001 324, 372): what
\* runs here is the pair of service calls sortEmailsFromAllFolders (or
\* sortAllEmailsFromAllFolders), then processSortedEmails.

\* processSortedEmails(sortedEmails) after a sort of all folders.
ProcStartAllFolders == processSortedEmails({"folders", "foldersAll"})

\* The service started on a server whose messages are spread over INBOX and
\* another folder, with one request left.
RelocateAllInit ==
    /\ InitService
    /\ OneAtATime
    /\ clock = 0
    /\ dates = <<>>
    /\ unparsable = {}
    /\ pc = "boot"
    /\ runs = MaxRuns - 1
    /\ boxes \in InitListings
    /\ \E inInbox \in SUBSET (1..MaxMsgs) :
           content = [f \in FolderNames |->
                         IF f = INBOX THEN inInbox
                         ELSE IF f = OtherFolder(boxes)
                              THEN (1..MaxMsgs) \ inInbox
                              ELSE {}]

RelocateAllNext ==
    \/ FoldersNext
    \/ ProcStartAllFolders

RelocateAllSpec == RelocateAllInit /\ [][RelocateAllNext]_vars

---------------------------------------------------------------------------
\* The date filter of AnalyzeEmailService.getTodayEmails and
\* getAllTodayEmails (analyze_email.service.ts), on its own: the dates of the
\* messages and the current time are drawn from bounded sets.  Times are
\* minutes, in the time zone of the process.

MinutesPerDay == 1440

\* Days the drawn times span.
MaxDay == 2

\* Midnight, a minute past it and a minute before the next one.
Timestamps ==
    {d * MinutesPerDay + m : d \in 0..MaxDay, m \in {0, 1, MinutesPerDay - 1}}

\* date.setHours(0, 0, 0, 0)
setHours0(t) == t - (t % MinutesPerDay)

\* A filter that keeps the messages of the last twenty-four hours.
withinLastDay(date, now) == date <= now /\ now < date + MinutesPerDay

\* The predicate of folderEmails.filter: both dates are truncated to the
\* start of their day and compared.
isToday(date, now) == setHours0(date) = setHours0(now)

TodayInit ==
    /\ InitService
    /\ OneAtATime
    /\ unparsable = {}
    /\ pc = "today_search"
    /\ runs = 0
    /\ boxes = <<INBOX>>
    /\ content = [f \in FolderNames |->
                     IF f = INBOX THEN 1..MaxMsgs ELSE {}]
    /\ dates \in [1..MaxMsgs -> Timestamps]
    /\ clock \in Timestamps

TodayFrame ==
    UNCHANGED <<sessionVars, serverVars, categories, op, runs, idx,
                sortedEmails, catIdx, emailUids, totalProcessed, log, warned,
                closeThrew, lastClose, faults, result, pureVars, folderIdx,
                unparsable, dates, concVars, limit, fetch,
                batchRun>>

\* search(['UNSEEN', ['SINCE', searchDate]]) and the fetch: the server filters
\* by day, and a server whose day starts later also returns messages of the
\* day before; each message comes with its date.
TodaySearch ==
    /\ pc = "today_search"
    /\ LET unread == content[INBOX] \ seen
           since == {m \in unread : dates[m] >= setHours0(clock)}
           dayBefore == {m \in unread :
                            /\ dates[m] < setHours0(clock)
                            /\ dates[m] + MinutesPerDay >= setHours0(clock)}
       IN  \E extra \in SUBSET dayBefore :
               LET results == SortedSeq(since \cup extra)
               IN  emails' = [i \in 1..Len(results) |->
                                 [msg |-> results[i],
                                  date |-> dates[results[i]],
                                  folderPath |-> INBOX]]
    /\ pc' = "today_filter"
    /\ UNCHANGED <<clock, todayEmails>>
    /\ TodayFrame

\* Time passes between the search and the filter.
Tick ==
    /\ pc = "today_filter"
    /\ clock' \in {t \in Timestamps : t > clock}
    /\ UNCHANGED <<pc, emails, todayEmails>>
    /\ TodayFrame

\* todayEmails = folderEmails.filter(...), against new Date().
FilterToday ==
    /\ pc = "today_filter"
    /\ todayEmails' = SelectSeq(emails, LAMBDA e : isToday(e.date, clock))
    /\ pc' = "today_done"
    /\ UNCHANGED <<clock, emails>>
    /\ TodayFrame

TodayNext ==
    \/ TodaySearch
    \/ Tick
    \/ FilterToday

TodaySpec == TodayInit /\ [][TodayNext]_vars

---------------------------------------------------------------------------
\* Requests handled at the same time.  The service is a singleton with one
\* imap object; a handler of the controller runs until its next await, where
\* the handler of another request may run.  Each call on the session is split
\* in the call and its callback.  The steps of a sort request that matter to
\* the session are kept: connectToImap, openBox and search of the fetch, the
\* classification (no session), the state check of processSortedEmails, the
\* getBoxes of ensureCategoryExists, the openBox of the relocation and
\* closeConnection; the relocation commands after that openBox follow the
\* same pattern.

\* Requests the controller handles at the same time.
MaxRequests == 2

Requests == 1..MaxRequests

\* The session as a request finds it: 'ready' is authenticated with no end()
\* pending.
Status ==
    IF imapState = "authenticated"
    THEN IF ending THEN "ended" ELSE "ready"
    ELSE IF imapState = "connected" THEN "connected"
    ELSE IF \E r \in Requests : cpc[r] \in {"connect_fetch", "connect_proc"}
         THEN "connecting"
         ELSE "disconnected"

ConcInit ==
    /\ InitService
    /\ unparsable = {}
    /\ clock = 0
    /\ dates = <<>>
    /\ pc = "serving"
    /\ runs = 0
    /\ boxes = <<INBOX, Factures>>
    /\ content = [f \in FolderNames |-> IF f = INBOX THEN {1} ELSE {}]
    /\ cpc = [r \in Requests |-> "idle"]
    /\ order = <<>>
    /\ issuedIn = [r \in Requests |-> [start |-> "none", first |-> "none"]]

ConcFrame ==
    UNCHANGED <<connPromise, listeners, connEvents, connRet, boxes, content,
                seen, deleted, categories, pc, op, runs, runVars, closeThrew,
                lastClose, faults, result, pureVars, folderIdx, unparsable,
                todayVars, limit, fetch, batchRun>>

\* imap.connect() of connectToImap: a new transport, nothing selected.
ConcConnect ==
    /\ imapState' = "disconnected"
    /\ ending' = FALSE
    /\ selected' = <<>>

\* closeConnection.
ConcClose ==
    /\ ending' = (ending \/ imapState # "disconnected")
    /\ UNCHANGED <<imapState, selected>>

\* POST sort / sort-all arrives: the handler runs up to the await of
\* connectToImap in the fetch.
Trigger(r) ==
    /\ cpc[r] = "idle"
    /\ cpc' = [cpc EXCEPT ![r] = "connect_fetch"]
    /\ order' = Append(order, r)
    /\ ConcConnect
    /\ UNCHANGED issuedIn
    /\ ConcFrame

\* The transport is connected; the login follows.
ConcTransportConnected ==
    /\ imapState = "disconnected"
    /\ \E r \in Requests : cpc[r] \in {"connect_fetch", "connect_proc"}
    /\ imapState' = "connected"
    /\ UNCHANGED <<ending, selected, concVars>>
    /\ ConcFrame

\* 'ready': every pending connectToImap resolves, its listener being armed
\* on the one imap object.
ConcTransportReady ==
    /\ imapState = "connected"
    /\ imapState' = "authenticated"
    /\ cpc' = [r \in Requests |->
                  IF cpc[r] = "connect_fetch" THEN "open_inbox"
                  ELSE IF cpc[r] = "connect_proc" THEN "ensure"
                  ELSE cpc[r]]
    /\ UNCHANGED <<ending, selected, order, issuedIn>>
    /\ ConcFrame

\* The transport closes after an end().
ConcTransportClose ==
    /\ ending
    /\ ending' = FALSE
    /\ imapState' = "disconnected"
    /\ selected' = <<>>
    /\ UNCHANGED concVars
    /\ ConcFrame

\* Positions in which a request waits for the callback of a command.
Outstanding == {"opening", "searching", "ensuring", "opening_source"}

\* The command of each position, where the request goes when the command is
\* issued and where it goes when it is acknowledged.
Issues ==
    [open_inbox |-> "opening", search |-> "searching", ensure |-> "ensuring",
     open_source |-> "opening_source"]

Acked ==
    [opening |-> "search", searching |-> "classify",
     ensuring |-> "open_source", opening_source |-> "close"]

\* Request r calls a command.  On a session that is not authenticated the
\* call raises and the catch of the request closes the connection.
Issue(r) ==
    /\ cpc[r] \in DOMAIN Issues
    /\ issuedIn' = IF cpc[r] = "ensure"
                   THEN [issuedIn EXCEPT ![r].first = Status]
                   ELSE issuedIn
    /\ IF imapState = "authenticated"
       THEN /\ cpc' = [cpc EXCEPT ![r] = Issues[cpc[r]]]
            /\ UNCHANGED <<imapState, ending, selected>>
       ELSE /\ cpc' = [cpc EXCEPT ![r] = "done"]
            /\ ConcClose
    /\ UNCHANGED order
    /\ ConcFrame

\* The callback of the command of request r.  An openBox selects INBOX; a
\* search needs the session to have a folder selected; a command fails on a
\* session that is no longer authenticated.  An error is caught and the
\* connection closed.
Ack(r) ==
    /\ cpc[r] \in Outstanding
    /\ \E ok \in IF /\ imapState = "authenticated"
                    /\ cpc[r] = "searching" => selected # <<>>
                 THEN BOOLEAN ELSE {FALSE} :
           IF ok
           THEN /\ cpc' = [cpc EXCEPT ![r] = Acked[cpc[r]]]
                /\ selected' = IF cpc[r] \in {"opening", "opening_source"}
                               THEN INBOX ELSE selected
                /\ UNCHANGED <<imapState, ending>>
           ELSE /\ cpc' = [cpc EXCEPT ![r] = "done"]
                /\ ConcClose
    /\ UNCHANGED <<order, issuedIn>>
    /\ ConcFrame

\* The classification of the fetched messages: awaits that use no session.
ConcClassify(r) ==
    /\ cpc[r] = "classify"
    /\ cpc' = [cpc EXCEPT ![r] = "proc_start"]
    /\ UNCHANGED <<imapState, ending, selected, order, issuedIn>>
    /\ ConcFrame

\* processSortedEmails starts: it reconnects if the state of the session is
\* unset or 'disconnected', and goes on to its loop otherwise.
ConcProcStart(r) ==
    /\ cpc[r] = "proc_start"
    /\ issuedIn' = [issuedIn EXCEPT ![r].start = Status]
    /\ IF imapState = "disconnected"
       THEN /\ cpc' = [cpc EXCEPT ![r] = "connect_proc"]
            /\ ConcConnect
       ELSE /\ cpc' = [cpc EXCEPT ![r] = "ensure"]
            /\ UNCHANGED <<imapState, ending, selected>>
    /\ UNCHANGED order
    /\ ConcFrame

\* The end of processSortedEmails: closeConnection, and the answer.
ConcProcDone(r) ==
    /\ cpc[r] = "close"
    /\ cpc' = [cpc EXCEPT ![r] = "done"]
    /\ ConcClose
    /\ UNCHANGED <<order, issuedIn>>
    /\ ConcFrame

ConcNext ==
    \/ \E r \in Requests : Trigger(r)
    \/ ConcTransportConnected
    \/ ConcTransportReady
    \/ ConcTransportClose
    \/ \E r \in Requests : Issue(r)
    \/ \E r \in Requests : Ack(r)
    \/ \E r \in Requests : ConcClassify(r)
    \/ \E r \in Requests : ConcProcStart(r)
    \/ \E r \in Requests : ConcProcDone(r)

ConcSpec == ConcInit /\ [][ConcNext]_vars

---------------------------------------------------------------------------
\* Properties of processSortedEmails.

RelocationCmds == {"setFlags", "copy", "addFlags", "expunge"}

\* C1: in processSortedEmails, expunge is issued for a category batch only
\* after the copy of that same batch was acknowledged without error; after a
\* failed copy no expunge is issued for the batch.
ExpungeOnlyAfterCopy ==
    \A j \in 1..Len(log) :
        /\ log[j].cmd = "expunge" =>
               \E i \in 1..(j - 1) :
                   /\ log[i].cmd = "copy"
                   /\ log[i].cat = log[j].cat
                   /\ log[i].uids = log[j].uids
                   /\ log[i].ok
        /\ (log[j].cmd = "copy" /\ ~log[j].ok) =>
               \A i \in 1..Len(log) :
                   ~(log[i].cmd = "expunge" /\ log[i].cat = log[j].cat)

\* A run in which one batch was copied and expunged and the copy of a later
\* batch failed.
ExpungeOnlyAfterCopyWitness ==
    /\ pc = "done"
    /\ \E i, j \in 1..Len(log) :
           /\ i < j
           /\ log[i].cmd = "expunge" /\ log[i].ok
           /\ log[j].cmd = "copy" /\ ~log[j].ok
           /\ log[i].cat # log[j].cat

\* C2: given a batch of three non-empty categories, when a step of
\* reconciling one of them fails, processSortedEmails still runs the full
\* relocation sequence of the two others, whatever the position of the failed
\* one: a category with UIDs and no failed step of its own has been flagged,
\* copied and expunged when processSortedEmails returns.
PartialFailureIsolation ==
    (/\ pc = "done" /\ op = "sort" /\ result.kind = "ok"
     /\ Cardinality({k \in 1..Len(sortedEmails) :
                        sortedEmails[k].emails # <<>>}) = 3) =>
        \A a, b \in 1..Len(sortedEmails) :
            LET failed(k) ==
                    \E i \in 1..Len(log) :
                        log[i].cat = sortedEmails[k].category /\ ~log[i].ok
            IN  (/\ a # b
                 /\ failed(b)
                 /\ ~failed(a)
                 /\ validUids(sortedEmails[a].emails) # <<>>)
                => \A cmd \in RelocationCmds :
                       \E i \in 1..Len(log) :
                           /\ log[i].cmd = cmd
                           /\ log[i].cat = sortedEmails[a].category
                           /\ log[i].ok

\* C3 (first part): the four relocation commands of a category get the UIDs
\* of its messages that have one, all of them and nothing else.
OnlyUidsAttempted ==
    \A i \in 1..Len(log) :
        log[i].cmd \in RelocationCmds =>
            /\ 0 \notin Range(log[i].uids)
            /\ \E k \in 1..Len(sortedEmails) :
                   /\ sortedEmails[k].category = log[i].cat
                   /\ log[i].uids = validUids(sortedEmails[k].emails)

\* C3: no message lacking a UID is passed to the relocation commands, the N-K
\* UIDs of a category are attempted, and the K messages lacking one are
\* reported as skipped: once the UIDs of a category were collected, a
\* category holding a message without UID has been warned about.
UidPrecondition ==
    /\ OnlyUidsAttempted
    /\ \A k \in 1..Len(sortedEmails) :
           (/\ Len(validUids(sortedEmails[k].emails))
                   < Len(sortedEmails[k].emails)
            /\ \E i \in 1..Len(log) :
                   /\ log[i].cmd = "openBox"
                   /\ log[i].cat = sortedEmails[k].category
                   /\ log[i].ok)
           => sortedEmails[k].category \in warned

---------------------------------------------------------------------------
\* Properties of the category taxonomy and of classification.

\* C4: whatever the classifier does, categorizeEmail returns a value: never
\* nothing, never a string outside the known categories plus 'Autre'; and it
\* returns 'Autre' when the call failed or timed out, when the answer is empty,
\* and when the label equals no known category case-insensitively.
FallbackTotality ==
    lastAnswer.kind # "none" =>
        LET label == trim(lastAnswer.content)
        IN  /\ lastCategory # <<>>
            /\ lastCategory \in Range(categories) \cup {Autre}
            /\ (\/ lastAnswer.kind \in {"throw", "null"}
                \/ label = <<>>
                \/ \A i \in 1..Len(categories) :
                       toLowerCase(categories[i]) # toLowerCase(label))
               => lastCategory = Autre

\* C4 (the part that holds): categorizeEmail always returns a non-empty
\* string among the known categories plus 'Autre', and that string is 'Autre'
\* or a case variant of it in every fallback case.
FallbackWithinCategories ==
    lastAnswer.kind # "none" =>
        LET label == trim(lastAnswer.content)
        IN  /\ lastCategory # <<>>
            /\ lastCategory \in Range(categories) \cup {Autre}
            /\ (\/ lastAnswer.kind \in {"throw", "null"}
                \/ label = <<>>
                \/ \A i \in 1..Len(categories) :
                       toLowerCase(categories[i]) # toLowerCase(label))
               => toLowerCase(lastCategory) = toLowerCase(Autre)

\* C5: for every folder listing, the categories built by initializeCategories
\* hold neither INBOX nor a name starting with '[', and they are the other
\* listed folders plus 'Autre', which occurs once.
FolderExclusion ==
    pc = "listed" =>
        /\ ~includes(categories, INBOX)
        /\ \A i \in 1..Len(categories) : categories[i][1] # "["
        /\ Range(categories) =
               {name \in Range(boxes) : name # INBOX /\ name[1] # "["}
                   \cup {Autre}
        /\ Cardinality({i \in 1..Len(categories) : categories[i] = Autre}) = 1
        /\ Cardinality(Range(categories)) = Len(categories)

\* A listing with a bracketed folder first, 'Autre' before INBOX and another
\* folder last.
FolderExclusionWitness ==
    /\ pc = "listed"
    /\ boxes = <<Gmail, Autre, INBOX, Factures>>
    /\ categories = <<Autre, Factures>>

\* C6: when a sort run groups a classified message, the category set is not
\* empty and holds 'Autre', and the batch has a list for 'Autre', whatever
\* happened when the module started.
FallbackBucketAtGrouping ==
    (pc = "classify" /\ op = "sort" /\ idx <= Len(emails)) =>
        /\ categories # <<>>
        /\ includes(categories, Autre)
        /\ hasKey(sortedEmails, Autre)

---------------------------------------------------------------------------
\* Properties of a sort request as a whole.

\* The number of messages of a list that are in the folder of the category
\* and no longer in INBOX.
Relocated(category, list) ==
    Cardinality({i \in 1..Len(list) :
                    /\ list[i].msg \in content[normalizeMailboxName(category)]
                    /\ list[i].msg \notin content[INBOX]})

\* C7: when POST sort has run on a module that connected at start and every
\* server command of the request succeeded (the fetch delivering the UID of
\* every message), the request succeeds, every fetched message has one
\* category of the category set, the folder of that category exists, the
\* message is in that folder and no longer in INBOX, and the returned counts
\* are the numbers of messages per category.
EndToEndRelocation ==
    (pc = "done" /\ op = "sort" /\ ~faults /\ categories # <<>>) =>
        /\ result.kind = "ok"
        /\ result.stats =
               [k \in 1..Len(categories) |->
                   [category |-> categories[k],
                    count |-> Cardinality({i \in 1..Len(emails) :
                                  emails[i].category = categories[k]})]]
        /\ \A i \in 1..Len(emails) :
               LET folderName == normalizeMailboxName(emails[i].category)
               IN  /\ includes(categories, emails[i].category)
                   /\ folderName \in Range(boxes)
                   /\ emails[i].msg \in content[folderName]
                   /\ emails[i].msg \notin content[INBOX]

\* The scenario: two unread messages, one classified 'Factures' and one
\* falling back to 'Autre', both moved, counts Factures 1 and Autre 1.
EndToEndRelocationWitness ==
    /\ pc = "done" /\ op = "sort" /\ ~faults
    /\ Len(emails) = 2
    /\ [category |-> Factures, count |-> 1] \in Range(result.stats)
    /\ [category |-> Autre, count |-> 1] \in Range(result.stats)
    /\ Autre \in Range(boxes)
    /\ content[INBOX] = {}
    /\ Cardinality(content[Factures]) = 1
    /\ Cardinality(content[Autre]) = 1

\* C8: the count returned for a category (the stats of POST sort, the number
\* returned by sortEmailsByCategory) is the number of messages of that
\* category that were copied to its folder and expunged from INBOX, also when
\* a step of the reconciliation failed.
CountsAreRelocated ==
    (pc = "done" /\ result.kind = "ok") =>
        \A k \in 1..Len(sortedEmails) :
            LET count == IF op = "sort" THEN result.stats[k].count
                         ELSE result.emailsProcessed
            IN  count = Relocated(sortedEmails[k].category,
                                  sortedEmails[k].emails)

---------------------------------------------------------------------------
\* Properties of the session.

\* C9: the promise of connectToImap is pending until the transport signals,
\* resolved if the first signal is 'ready' and rejected if it is 'error'; a
\* later signal does not change the outcome.
ConnectOutcome ==
    connPromise # "none" =>
        /\ connPromise = "pending" <=> connEvents = <<>>
        /\ connEvents # <<>> =>
               connPromise = IF connEvents[1] = "ready" THEN "resolved"
                             ELSE "rejected"

\* 'error' signalled after 'ready': the promise stays resolved.
ConnectOutcomeWitness ==
    /\ connEvents = <<"ready", "error">>
    /\ connPromise = "resolved"

\* C10: closeConnection never throws, on a ready, closed or never-connected
\* session, even when end() raises; a second consecutive call leaves the
\* session as the first left it, and so does any further call.
CloseIsIdempotent ==
    /\ ~closeThrew
    /\ \A i \in 1..Len(lastClose) : ~lastClose[i].threw
    /\ Len(lastClose) = 3 => lastClose[3] = lastClose[2]
    /\ lastClose # <<>> =>
           closeConnection(lastClose[Len(lastClose)])
               = lastClose[Len(lastClose)]

\* Two consecutive calls on a ready session whose end() raises.
CloseIsIdempotentWitness ==
    /\ Len(lastClose) = 3
    /\ lastClose[1].state = "authenticated"
    /\ lastClose[1].raises
    /\ lastClose[3] = lastClose[1]

---------------------------------------------------------------------------
\* Properties of the order of the commands and of the outcome of a request.

\* The relocation command that precedes cmd in the sequence of a category
\* (the openBox of the category precedes setFlags).
Previous(cmd) ==
    CASE cmd = "setFlags" -> "openBox"
      [] cmd = "copy" -> "setFlags"
      [] cmd = "addFlags" -> "copy"
      [] cmd = "expunge" -> "addFlags"

\* C19: within the reconciliation of one category, setFlags, copy, addFlags
\* and expunge are issued in that order, each one right after the previous
\* one was acknowledged without error for the same category and UIDs, and
\* after a command that failed no later command is issued.
StrictCommandOrder ==
    \A j \in 1..Len(log) :
        /\ log[j].cmd \in RelocationCmds =>
               /\ j > 1
               /\ log[j - 1].cmd = Previous(log[j].cmd)
               /\ log[j - 1].cat = log[j].cat
               /\ log[j - 1].ok
               /\ log[j].cmd # "setFlags" => log[j - 1].uids = log[j].uids
        /\ ~log[j].ok => j = Len(log)

\* A run that took one category through the four commands and whose addFlags
\* failed for the next category.
StrictCommandOrderWitness ==
    /\ pc = "done"
    /\ \E i \in 1..Len(log) :
           /\ log[i].cmd = "expunge" /\ log[i].ok
    /\ log[Len(log)].cmd = "addFlags"
    /\ ~log[Len(log)].ok
    /\ log[Len(log) - 1].cmd = "copy"

\* Whether the log holds an acknowledged expunge for category k of the batch.
Reconciled(k) ==
    \E i \in 1..Len(log) :
        /\ log[i].cmd = "expunge"
        /\ log[i].cat = sortedEmails[k].category
        /\ log[i].ok

\* The non-empty categories of the batch.
NonEmptyCategories ==
    {k \in 1..Len(sortedEmails) : sortedEmails[k].emails # <<>>}

\* C16: a sort request that reconciled at least one non-empty category ends
\* as completed, and a sort request in which a command failed and no
\* non-empty category was reconciled is answered as failed.
RunStatusFollowsReconciliation ==
    (pc = "done" /\ op = "sort") =>
        /\ (\E k \in NonEmptyCategories : Reconciled(k)) =>
               result.success
        /\ (/\ NonEmptyCategories # {}
            /\ \A k \in NonEmptyCategories : ~Reconciled(k)
            /\ \E i \in 1..Len(log) : ~log[i].ok)
           => ~result.success

\* C14: a failed classifier call never ends a sort request, that of
\* sortEmailsByCategory included: no request is answered with the error of
\* the classifier.
ClassifierFailureNeverPropagates ==
    result.kind = "error" => result.error # "classifier"

\* Requests that start with a sort run: sortEmails, sortAllEmails,
\* sortEmailsByCategory, sortEmailsFromAllFolders,
\* sortAllEmailsFromAllFolders.
SortRunOps == GroupingOps \cup {"bycat"}

\* C12: when a sort run throws during its fetch or its classification, so
\* that the request is answered with an error, closeConnection has been
\* invoked earlier in that request: on the session as it was, end() having
\* been called unless the session was 'disconnected'.
CloseBeforeErrorPropagates ==
    (op \in SortRunOps /\ result.kind = "error") =>
        /\ Len(lastClose) = 2
        /\ lastClose[2] = closeConnection(lastClose[1])
        /\ (lastClose[1].state # "disconnected" /\ ~lastClose[1].raises)
               => ending

\* The sort of all folders failed on a ready session (the getBoxes of the
\* fetch), and the catch of the sort ended the session.
CloseBeforeErrorPropagatesWitness ==
    /\ pc = "done"
    /\ op = "folders"
    /\ result.kind = "error"
    /\ lastClose # <<>>
    /\ lastClose[1].state = "authenticated"
    /\ ending

---------------------------------------------------------------------------
\* Properties of the fetch of all folders and of the analysis endpoints.

FolderOps == {"folders", "foldersAll"}

\* Whether the log holds a failed call of cmd for the folder.
FolderFailed(cmd, folder) ==
    \E i \in 1..Len(log) :
        log[i].cmd = cmd /\ log[i].cat = folder /\ ~log[i].ok

\* C13: in the fetch of all folders, when the opening or the search of a
\* folder fails, no search of that folder is acknowledged and no message is
\* fetched on its behalf, no returned message is tagged with that folder,
\* the loop goes on to every other folder of the listing, and the fetch
\* itself does not fail.
FailingFolderIsSkipped ==
    op \in FolderOps =>
        /\ \A k \in 1..Len(boxes) :
               (FolderFailed("openBox", boxes[k])
                    \/ FolderFailed("search", boxes[k])) =>
                   /\ \A j \in 1..Len(log) :
                          (log[j].cmd = "search" /\ log[j].cat = boxes[k])
                              => (~log[j].ok /\ log[j].uids = <<>>)
                   /\ \A i \in 1..Len(emails) :
                          emails[i].folderPath # boxes[k]
                   /\ result.kind = "error" => result.error = "TypeError"
        /\ (pc \in {"classify", "done"} /\ log # <<>>) =>
               \A k \in 1..Len(boxes) :
                   \E j \in 1..Len(log) :
                       log[j].cmd = "openBox" /\ log[j].cat = boxes[k]

\* The fetch of all folders is over: the opening of one folder failed on a
\* ready session, and the messages of a folder before it and of a folder
\* after it were returned.
FailingFolderIsSkippedWitness ==
    /\ op \in FolderOps
    /\ pc = "classify"
    /\ \E i, j, k \in 1..Len(log) :
           /\ i < j /\ j < k
           /\ log[i].cmd = "search" /\ log[i].ok /\ log[i].uids # <<>>
           /\ log[j].cmd = "openBox" /\ ~log[j].ok
           /\ log[k].cmd = "search" /\ log[k].ok /\ log[k].uids # <<>>
    /\ Len(emails) = MaxMsgs

\* C15: a body that fails to parse costs that message alone: a fetch is not
\* aborted by it, and every other message found by an acknowledged search of
\* a folder is returned, tagged with that folder.
ParseFailureIsPerMessage ==
    /\ result.kind = "error" => result.error # "parse"
    /\ op \in FolderOps =>
           \A j \in 1..Len(log) :
               (log[j].cmd = "search" /\ log[j].ok) =>
                   \A m \in Range(log[j].uids) \ unparsable :
                       \E i \in 1..Len(emails) :
                           /\ emails[i].msg = m
                           /\ emails[i].folderPath = log[j].cat

\* C18: the analysis endpoints (analyze-invoices, analyze-all-folders/unread
\* and /all) issue no setFlags, addFlags, copy, expunge or addBox: the only
\* calls of their fetch are openBox and search, and no step of such a request
\* changes the folders of the server, the messages they hold or their flags.
AnalysisIsReadOnly ==
    /\ [](op \in FolderOps =>
             \A i \in 1..Len(log) : log[i].cmd \in {"openBox", "search"})
    /\ [](op = "invoices" => log = <<>>)
    /\ [][(op \in AnalysisOps) =>
               UNCHANGED <<boxes, content, seen, deleted>>]_vars

\* An analysis of all folders that fetched and classified every message of
\* the server and was answered.
AnalysisIsReadOnlyWitness ==
    /\ pc = "done"
    /\ op \in FolderOps
    /\ result.kind = "ok"
    /\ Len(emails) = MaxMsgs
    /\ \A i \in 1..Len(emails) : emails[i].category # <<>>
    /\ \E i, j \in 1..Len(emails) : emails[i].folderPath # emails[j].folderPath

---------------------------------------------------------------------------
\* Properties of the date filter.

\* The day a time falls in.
Day(t) == t \div MinutesPerDay

\* C17: the 'today' filter keeps a fetched message if and only if its date
\* falls in the same day as the current time; a message dated 23:59 of the
\* day before is left out even though the server returned it, and a message
\* dated 00:01 of the day is kept.
ExactTodayFilter ==
    pc = "today_done" =>
        \A i \in 1..Len(emails) :
            LET kept == \E j \in 1..Len(todayEmails) :
                            todayEmails[j] = emails[i]
            IN  /\ kept <=> Day(emails[i].date) = Day(clock)
                /\ emails[i].date = Day(clock) * MinutesPerDay - 1 => ~kept
                /\ emails[i].date = Day(clock) * MinutesPerDay + 1 => kept

\* The server returned a message of 23:59 the day before and one of 00:01;
\* the filter kept the second only.
ExactTodayFilterWitness ==
    /\ pc = "today_done"
    /\ Len(emails) = 2
    /\ emails[1].date + 1 = Day(clock) * MinutesPerDay
    /\ emails[2].date = Day(clock) * MinutesPerDay + 1
    /\ todayEmails = <<emails[2]>>

---------------------------------------------------------------------------
\* Properties of requests handled at the same time.

\* Whether request r has started and has not been answered.
InProgress(r) == cpc[r] \notin {"idle", "done"}

\* C11: the session is owned by one request at a time: a request that
\* arrived after another one has no command outstanding on the session while
\* the earlier one is in progress, at most one command is outstanding at any
\* time, and the folder a request opened stays selected while that request
\* searches it.
ExclusiveSession ==
    /\ \A i, j \in 1..Len(order) :
           i < j => ~(cpc[order[j]] \in Outstanding /\ InProgress(order[i]))
    /\ Cardinality({r \in Requests : cpc[r] \in Outstanding}) <= 1
    /\ \A r \in Requests :
           cpc[r] \in {"search", "searching"} => selected = INBOX

\* C20: when processSortedEmails starts on a session that is not ready
\* (disconnected, connecting, connected but not authenticated, or ended), the
\* session is ready when it issues its first command, the getBoxes of
\* ensureCategoryExists.
ReconnectBeforeFirstCommand ==
    \A r \in Requests :
        (issuedIn[r].start \notin {"none", "ready"}
             /\ issuedIn[r].first # "none")
            => issuedIn[r].first = "ready"

---------------------------------------------------------------------------
\* Properties of ensureCategoryExists.

\* No folder of the server equals name case-insensitively and none equals
\* its normalized variant.
NoFolderMatches(name) ==
    \A i \in 1..Len(boxes) :
        /\ toLowerCase(boxes[i]) # toLowerCase(name)
        /\ boxes[i] # normalizeMailboxName(name)

\* The category ensureCategoryExists was called with.
EnsuredCategory ==
    IF pc \in {"bycat_ensure", "bycat_add"} THEN sortedEmails[1].category
    ELSE CurCategory

\* ensureCategoryExists is about to issue addBox only when no folder
\* matches; once it resolved without one, a folder matches; a created folder
\* has the normalized name; a failed getBoxes or addBox is the last command
\* of processSortedEmails and no relocation command was issued for its
\* category.
EnsureStates ==
    /\ pc \in {"add_box", "bycat_add"} => NoFolderMatches(EnsuredCategory)
    /\ (pc = "open_source" /\ log[Len(log)].cmd = "getBoxes")
           => ~NoFolderMatches(CurCategory)
    /\ \A k \in 1..Len(log) :
           /\ (log[k].cmd = "addBox" /\ log[k].ok)
                  => normalizeMailboxName(log[k].cat) \in Range(boxes)
           /\ (log[k].cmd \in {"getBoxes", "addBox"} /\ ~log[k].ok)
                  => /\ k = Len(log)
                     /\ pc = "done"
                     /\ \A j \in 1..Len(log) :
                            log[j].cat = log[k].cat
                                => log[j].cmd \notin RelocationCmds

\* The steps of ensureCategoryExists: it resolves without addBox only when a
\* folder matches, the only folder ever created is the normalized name of
\* the ensured category, and in sortEmailsByCategory its error is the error
\* of the request, before any command of processSortedEmails.
EnsureSteps ==
    /\ (pc = "bycat_ensure" /\ pc' = "connecting")
           => ~NoFolderMatches(EnsuredCategory)
    /\ (pc = "proc_loop" /\ pc' = "add_box") => NoFolderMatches(CurCategory')
    /\ boxes' # boxes
           => /\ pc \in {"add_box", "bycat_add"}
              /\ boxes' = Append(boxes,
                                 normalizeMailboxName(EnsuredCategory))
    /\ (pc \in {"bycat_ensure", "bycat_add"} /\ pc' = "done")
           => /\ result'.kind = "error"
              /\ result'.error = "imap"
              /\ log' = <<>>
              /\ boxes' = boxes

\* C21: ensureCategoryExists(name) issues addBox if and only if no listed
\* folder equals name case-insensitively and none equals the normalized
\* variant of name; what it creates is the normalized name; when getBoxes or
\* addBox fails the error propagates and no setFlags, copy, addFlags or
\* expunge is issued for the messages of that category.
EnsureCreatesIffMissing == []EnsureStates /\ [][EnsureSteps]_vars

\* POST sort-by-category for 'Reçus' on a server that held INBOX and Autre:
\* 'Re&AOc-us' was created, found again by processSortedEmails under its
\* normalized name, and the messages were moved into it.
EnsureCreatesIffMissingWitness ==
    /\ pc = "done"
    /\ op = "bycat"
    /\ sortedEmails[1].category = Recus
    /\ boxes = <<INBOX, Autre, RecusEncoded>>
    /\ \E k \in 1..Len(log) : log[k].cmd = "getBoxes" /\ log[k].ok
    /\ \A k \in 1..Len(log) : log[k].cmd # "addBox"
    /\ content[RecusEncoded] # {}
    /\ result.kind = "ok"

---------------------------------------------------------------------------
\* Properties of the category set.

\* C22: the category set a sort run groups by is a snapshot of the folder
\* listing taken at the start of that run: once the module has listed the
\* folders at its start, the keys of the classification batch of every run
\* are the categories the listing of the server gives at that run, a folder
\* created by ensureCategoryExists in an earlier run included.
CategoriesAreRunSnapshot ==
    (/\ pc = "classify"
     /\ op \in GroupingOps
     /\ categories \notin {<<>>, <<Autre>>})
        => {sortedEmails[k].category : k \in 1..Len(sortedEmails)}
               = Range(initializeCategories(FALSE, boxes))

---------------------------------------------------------------------------
\* Properties of the session.

\* A step in which connectToImap is called: a new promise is awaited.
ConnectInvoked ==
    /\ pc' = "connecting"
    /\ pc # "connecting" \/ connRet' # connRet

\* C23: over any sequence of module start and sort runs, connect is invoked
\* only when the session is disconnected, never while it is connecting or
\* ready.  Stated for the runs that follow a module start that connected and
\* listed the folders.
ConnectOnlyWhenDisconnected ==
    [][(ConnectInvoked /\ categories # <<>>)
           => imapState = "disconnected"]_vars


\* Positions of a request at which its next step issues a command on the
\* session: getBoxes, addBox, openBox, search and fetch, setFlags, copy,
\* addFlags, expunge.
IssuesCommand ==
    \/ pc \in {"bycat_ensure", "bycat_add", "open_inbox", "search", "add_box",
               "open_source", "set_flags", "copy", "add_flags", "expunge"}
    \/ pc = "proc_loop" /\ NextCat # 0

\* The session is ready: authenticated, and no end() was accepted.
Ready == imapState = "authenticated" /\ ~ending

\* C30: every mail-protocol command of a sort run is issued while the
\* session is ready, over any sequence of runs; in particular
\* sortEmailsByCategory for a category the category set lacks, after an
\* earlier run closed the session, does not list or create folders on the
\* closed session.  Stated for the runs that follow a module start that
\* listed the folders, while no command failed in the run and the transport
\* signalled no error since the last connect.
CommandsOnlyWhenReady ==
    (/\ op # "none"
     /\ categories \notin {<<>>, <<Autre>>}
     /\ ~faults
     /\ "error" \in listeners
     /\ IssuesCommand) => Ready

---------------------------------------------------------------------------
\* Properties of the reconciliation as a whole.

\* The folder a message was fetched from: INBOX, or the folder the fetch of
\* all folders tagged it with.
SourceFolder(email) ==
    IF "folderPath" \in DOMAIN email THEN email.folderPath ELSE INBOX

---------------------------------------------------------------------------
\* Properties of a run that finds no mail.

\* The unread messages of INBOX: what the search of a sort run returns.
UnreadInbox == content[INBOX] \ seen

\* A step of a sort run that has fetched nothing while INBOX holds no unread
\* message (before its search: the search will return no identifier; after
\* it: it returned none): the server is left as it is (no folder created,
\* no flag set, nothing copied or expunged), and a run in which no command
\* failed ends with a success whose counts are all zero.  Stated for the
\* runs that follow a module start that connected.
NoMailStep ==
    (/\ op \in {"sort", "bycat"}
     /\ categories # <<>>
     /\ emails = <<>>
     /\ UnreadInbox = {})
        => /\ UNCHANGED <<boxes, content, seen, deleted>>
           /\ (pc # "done" /\ pc' = "done" /\ ~faults')
                  => /\ result'.kind = "ok"
                     /\ result'.success
                     /\ result'.emailsProcessed = 0
                     /\ \A k \in 1..Len(result'.stats) :
                            result'.stats[k].count = 0

\* C27: no mail is a normal terminal state: a sort run whose search returns
\* zero identifiers gets an empty list without error, completes
\* successfully with every category count zero, and issues no addBox,
\* setFlags, copy, addFlags or expunge.
NoMailRunIsInert == [][NoMailStep]_vars

---------------------------------------------------------------------------
\* Properties of the fetches called with a limit.

\* C25: when a limit is given, the search result identifiers are truncated
\* to it before any body is fetched: the fetch of INBOX and the fetch of all
\* folders never hold more parsed messages than the limit, and never return
\* more.
FetchWithinLimit ==
    (limit # 0) => Len(emails) <= limit

---------------------------------------------------------------------------
\* Properties of one fetch and its per-message events.

\* C24: UID capture is independent of body parsing: whichever of the
\* 'attributes' event and the parse completion of a message comes first,
\* every message a fetch returns carries the UID of its attributes.
UidCapturedInEveryOrder ==
    (fetch.outcome = "resolved") =>
        /\ Len(fetch.returned) = Len(fetch.ids)
        /\ \A i \in 1..Len(fetch.returned) :
               LET email == valueOf(fetch.returned[i], fetch.objs)
               IN  IF fetch.variant = "sort"
                   THEN email.uid = fetch.ids[i]
                   ELSE email.imapUID = String(fetch.ids[i])

\* A fetch has returned two messages: the parse of one completed before its
\* attributes came, the attributes of the other before its parse.
UidCapturedInEveryOrderWitness ==
    /\ fetch.outcome = "resolved"
    /\ Len(fetch.returned) = 2
    /\ Cardinality(fetch.early) = 1

---------------------------------------------------------------------------
\* Progress of a sort run.

\* C26: every sort run reaches a terminal state: once the request is
\* triggered, it eventually returns or throws, so that the controller
\* answers.
EveryRunTerminates ==
    (op \in SortRunOps) ~> (pc = "done")

---------------------------------------------------------------------------
\* Properties of the batched analysis.

\* The events of a run that has handled b batches: a delay between two
\* consecutive batches and none after the last.
RECURSIVE BatchesAndDelays(_)
BatchesAndDelays(b) ==
    IF b = 0 THEN <<>>
    ELSE IF b = 1 THEN <<"batch">>
    ELSE BatchesAndDelays(b - 1) \o <<"delay", "batch">>

\* Math.ceil(n / BATCH_SIZE).
BatchCount(n) == (n + BATCH_SIZE - 1) \div BATCH_SIZE

\* C28: the analysis calls are batched with a concurrency cap: at most
\* BATCH_SIZE calls are in flight at any time, all of them of the current
\* batch, every email of an earlier batch having its result and no email of
\* a later batch having been started; and a run that has returned has
\* inserted the delay between consecutive batches and not after the last.
BatchedWithCap ==
    /\ Cardinality(batchRun.inFlight) <= BATCH_SIZE
    /\ batchRun.inFlight \subseteq batchOf(batchRun.i, batchRun.n)
    /\ (batchRun.inFlight # {}) => Len(batchRun.analyzedEmails) = batchRun.i
    /\ (batchRun.pos = "returned") =>
           /\ batchRun.trail = BatchesAndDelays(BatchCount(batchRun.n))
           /\ Len(batchRun.analyzedEmails) = batchRun.n

\* A run over two full batches has returned: one delay was inserted, between
\* the two.
BatchedWithCapWitness ==
    /\ batchRun.pos = "returned"
    /\ batchRun.n = 2 * BATCH_SIZE
    /\ batchRun.trail = <<"batch", "delay", "batch">>

---------------------------------------------------------------------------
\* Properties of the session at the end of a request.

\* The session is closed, or end() was accepted and the transport is closing.
SessionReleased == imapState = "disconnected" \/ ending

\* C31: every request that opens the session releases it: once a sort or
\* analysis request has returned or thrown, the session is closed.  Stated
\* for the requests that follow a module start that listed the folders, in
\* which no command failed and no exception escaped closeConnection.
RequestReleasesSession ==
    (/\ pc = "done"
     /\ op # "none"
     /\ categories # <<>>
     /\ ~closeThrew
     /\ ~faults) => SessionReleased

---------------------------------------------------------------------------
\* Properties of a batch aborted by its copy.

\* The last command of the run is a copy that failed.
FailedCopy ==
    /\ log # <<>>
    /\ log[Len(log)].cmd = "copy"
    /\ ~log[Len(log)].ok

\* C32: a batch of an unread sort run aborted by a copy failure leaves the
\* source folder as it was before the batch began: the messages of the batch
\* are still in INBOX and still unread, so that the next unread sort run
\* selects them again.
AbortedBatchStaysUnread ==
    (op \in {"sort", "bycat"} /\ categories # <<>> /\ FailedCopy) =>
        Range(log[Len(log)].uids) \subseteq (content[INBOX] \ seen)

---------------------------------------------------------------------------
\* Properties of the destination of the copy.

\* C33: the destination name passed to copy is the name of a folder that
\* exists on the server at that moment: the folder ensureCategoryExists
\* matched or created for the category, also when the match was
\* case-insensitive or through the encoded variant of the name.
CopyDestinationExists ==
    (pc = "copy" /\ categories # <<>>) =>
        normalizeMailboxName(CurCategory) \in Range(boxes)

---------------------------------------------------------------------------
\* Properties of the folder in which the UIDs are applied.

\* Positions in which processSortedEmails is about to issue setFlags, copy,
\* addFlags or expunge for the UIDs of the current category.
RelocationSteps == {"set_flags", "copy", "add_flags", "expunge"}

---------------------------------------------------------------------------
\* Properties of the classification batch.

\* The lists of the batch in which a fetched message appears.
ListsHolding(msg) ==
    {k \in 1..Len(sortedEmails) :
        \E j \in 1..Len(sortedEmails[k].emails) :
            sortedEmails[k].emails[j].msg = msg}

RECURSIVE SumOfLengths(_)
SumOfLengths(batch) ==
    IF batch = <<>> THEN 0
    ELSE Len(Head(batch).emails) + SumOfLengths(Tail(batch))

\* The classify-and-group loop of the run is over.
Grouped ==
    /\ op \in GroupingOps
    /\ pc \notin {"search", "open_folder", "search_folder", "done"}
    /\ sortedEmails # <<>>
    /\ idx > Len(emails)

\* C35: grouping conserves messages: after the classify-and-group loop of a
\* sort run, every fetched message appears in exactly one category list of
\* the batch, its category field is the key of that list, and the list
\* lengths add up to the number of fetched messages.
GroupingConservesMessages ==
    Grouped =>
        /\ \A i \in 1..Len(emails) :
               Cardinality(ListsHolding(emails[i].msg)) = 1
        /\ \A k \in 1..Len(sortedEmails) :
               \A j \in 1..Len(sortedEmails[k].emails) :
                   sortedEmails[k].emails[j].category
                       = sortedEmails[k].category
        /\ SumOfLengths(sortedEmails) = Len(emails)

\* Two fetched messages have been grouped into two different lists.
GroupingConservesMessagesWitness ==
    /\ Grouped
    /\ Len(emails) = 2
    /\ Cardinality({k \in 1..Len(sortedEmails) :
                       sortedEmails[k].emails # <<>>}) = 2

===========================================================================
